---- MODULE Spec2Model ----
(***************************************************************************)
(* Model of pymet.field.core: McGrid (dimension metadata), McField (masked *)
(* array bound to a McGrid) and join.                                      *)
(*                                                                         *)
(* Python values are records [k, v]:                                       *)
(*   None            [k |-> "None",   v |-> <<>>]                          *)
(*   a Python scalar [k |-> "scalar", v |-> <<x>>]                         *)
(*   a list/ndarray  [k |-> "array",  v |-> <<x1, ..., xn>>]   (n >= 0)    *)
(* Positions are 1-based here (Python position p is p+1).                  *)
(* Where the identity of objects matters, heap holds them by address: a    *)
(* McGrid object refers to its dims list and to its coordinate arrays.     *)
(***************************************************************************)
EXTENDS Integers, Sequences, FiniteSets, TLC

VARIABLES grid, fld, args, op, res, heap

vars == <<grid, fld, args, op, res, heap>>

\* ------------------------------------------------------------------ bounds
MaxLen == 3
MaxCoord == 2
MaxSteps == 2

Coords == 0..MaxCoord

\* ------------------------------------------------------------ Python values
PyNone == [k |-> "None", v |-> <<>>]

PyScalar(x) == [k |-> "scalar", v |-> <<x>>]

PyArray(s) == [k |-> "array", v |-> s]

\* np.size(value): 1 for None and for a scalar, the length of a sequence
NpSize(value) == IF value.k = "array" THEN Len(value.v) ELSE 1

SeqsUpTo(S, lo, hi) == UNION {[1..n -> S] : n \in lo..hi}

\* ------------------------------------------------------------------ McGrid
\* correct_order of _setdimsattr, also the initial dims of __init__
correct_order == <<"ens", "time", "lev", "lat", "lon">>

AxisNames == {"lon", "lat", "lev", "time", "ens"}

Filter(s, name) == SelectSeq(s, LAMBDA x : x = name)

\* list.remove(name): drops the first occurrence only
ListRemove(s, name) ==
    LET hits == {i \in 1..Len(s) : s[i] = name}
    IN  IF hits = {} THEN s
        ELSE LET p == CHOOSE i \in hits : \A j \in hits : i <= j
             IN  SubSeq(s, 1, p - 1) \o SubSeq(s, p + 1, Len(s))

\* list.sort(key=correct_order.index): a stable sort on the canonical position
SortDims(s) ==
    Filter(s, correct_order[1]) \o Filter(s, correct_order[2]) \o
    Filter(s, correct_order[3]) \o Filter(s, correct_order[4]) \o
    Filter(s, correct_order[5])

SetdimsattrNoSort(dims, name, which) ==
    IF which = "remove" THEN ListRemove(dims, name)
    ELSE IF \E i \in 1..Len(dims) : dims[i] = name THEN dims
         ELSE Append(dims, name)

Setdimsattr(dims, name, which) ==
    IF which = "remove" THEN ListRemove(dims, name)
    ELSE IF \E i \in 1..Len(dims) : dims[i] = name THEN dims
         ELSE SortDims(Append(dims, name))

\* The value __setattr__ stores for an axis: None for size 0; for size 1
\* value[0], or value itself when indexing raises TypeError (None, a scalar);
\* np.asarray(value) otherwise.
StoredAxisKeepsOne(value) ==
    IF NpSize(value) = 0 THEN PyNone
    ELSE IF NpSize(value) = 1 THEN value
    ELSE PyArray(value.v)

StoredAxis(value) ==
    IF NpSize(value) = 0 THEN PyNone
    ELSE IF NpSize(value) = 1
         THEN IF value.k = "array" THEN PyScalar(value.v[1]) ELSE value
    ELSE PyArray(value.v)

\* McGrid.__setattr__ for a name other than 'dims'
SetAttr(g, name, value) ==
    IF name \in AxisNames
    THEN [g EXCEPT ![name] = StoredAxis(value),
                   !.dims = Setdimsattr(g.dims, name,
                               IF NpSize(value) >= 2 THEN "add" ELSE "remove")]
    ELSE [g EXCEPT ![name] = value]

\* McGrid.__init__: dims starts as the full canonical list, then name, lon,
\* lat, lev, time, ens are assigned in this order through __setattr__.
McGridInit(name, lon, lat, lev, time, ens) ==
    LET g0 == [name |-> PyNone, ens |-> PyNone, time |-> PyNone, lev |-> PyNone,
               lat |-> PyNone, lon |-> PyNone, dims |-> correct_order]
        g1 == SetAttr(g0, "name", name)
        g2 == SetAttr(g1, "lon", lon)
        g3 == SetAttr(g2, "lat", lat)
        g4 == SetAttr(g3, "lev", lev)
        g5 == SetAttr(g4, "time", time)
    IN  SetAttr(g5, "ens", ens)

\* McGrid(): every argument defaulted to None
EmptyGrid == McGridInit(PyNone, PyNone, PyNone, PyNone, PyNone, PyNone)

\* McGrid.copy: a deep copy of every attribute, dims included
GridCopy(g) == g

\* ------------------------------------------------------------ result record
NoData == [i \in {<<>>} |-> {}]

NoOp == [name |-> "none", dim |-> "", val |-> PyNone, kw |-> <<>>, n |-> 0]

NoRes == [kind |-> "none", err |-> "", grid |-> EmptyGrid, shape |-> <<>>,
          data |-> NoData]

Raise(e) == [NoRes EXCEPT !.kind = "error", !.err = e]

NoField == [grid |-> EmptyGrid, shape |-> <<>>, data |-> NoData]

\* the argument of join: a list/tuple of items, or something else
NoArgs == [islist |-> TRUE, items |-> <<>>]

\* the objects with an identity (McGrid instances, their dims lists and
\* coordinate arrays), by address; empty where identity plays no part
NoHeap == <<>>

\* ------------------------------------------------- the Grid specification
\* np.arange(n) and its reverse
Asc(n) == [i \in 1..n |-> i - 1]

Desc(n) == [i \in 1..n |-> n - i]

Ramps(lo, hi) == {Asc(n) : n \in lo..hi} \cup {Desc(n) : n \in lo..hi}

\* Values a caller assigns to an axis: None, a scalar, a sequence of 0..MaxLen
AxisInputs ==
    {PyNone} \cup {PyScalar(x) : x \in Coords}
             \cup {PyArray(s) : s \in Ramps(0, MaxLen)}

GridInit ==
    /\ \E lonlat \in BOOLEAN, levtime \in BOOLEAN, ens \in BOOLEAN :
          grid = McGridInit(PyScalar(0),
                     IF lonlat THEN PyArray(Asc(MaxLen)) ELSE PyNone,
                     IF lonlat THEN PyArray(Desc(MaxLen)) ELSE PyNone,
                     IF levtime THEN PyArray(Desc(MaxLen)) ELSE PyNone,
                     IF levtime THEN PyArray(Asc(MaxLen)) ELSE PyNone,
                     IF ens THEN PyArray(Asc(MaxLen)) ELSE PyNone)
    /\ fld = NoField
    /\ args = NoArgs
    /\ op = NoOp
    /\ res = NoRes
    /\ heap = NoHeap

\* grid.<name> = value, for an axis name
AssignAxis ==
    /\ op.n < MaxSteps
    /\ \E name \in AxisNames, value \in AxisInputs :
          /\ grid' = SetAttr(grid, name, value)
          /\ op' = [NoOp EXCEPT !.name = "setattr", !.dim = name, !.val = value,
                                !.n = op.n + 1]
          /\ res' = NoRes
    /\ UNCHANGED <<fld, args, heap>>

\* grid.dims = value: rejected with AttributeError, nothing stored
AssignDims ==
    /\ op.n < MaxSteps
    /\ op' = [NoOp EXCEPT !.name = "setdims", !.dim = "dims",
                          !.val = PyArray(<<>>), !.n = op.n + 1]
    /\ res' = Raise("AttributeError")
    /\ UNCHANGED <<grid, fld, args, heap>>

\* grid.name = value: any other attribute is stored as given
AssignName ==
    /\ op.n < MaxSteps
    /\ \E x \in Coords :
          /\ grid' = SetAttr(grid, "name", PyScalar(x))
          /\ op' = [NoOp EXCEPT !.name = "setname", !.dim = "name",
                                !.val = PyScalar(x), !.n = op.n + 1]
    /\ res' = NoRes
    /\ UNCHANGED <<fld, args, heap>>

GridNext == AssignAxis \/ AssignDims \/ AssignName

GridSpec == GridInit /\ [][GridNext]_vars

\* The axes of g that hold a sequence of two or more values, in canonical order
PresentAxes(g) ==
    SelectSeq(correct_order, LAMBDA a : g[a].k = "array" /\ Len(g[a].v) >= 2)

\* C1: after construction and after any sequence of axis assignments, dims is
\* exactly the canonical-order list of the axes that hold two or more values.
C1_OrderIsCanonicalRestriction == grid.dims = PresentAxes(grid)

\* C1 witness: after two assignments an axis was cleared, another holds a
\* scalar and a third holds a sequence.
C1_Witness ==
    /\ op.name = "setattr" /\ op.n >= 2
    /\ \E a, b, c \in AxisNames :
          /\ grid[a].k = "None" /\ grid[b].k = "scalar" /\ grid[c].k = "array"
    /\ Len(grid.dims) >= 2

InDims(g, a) == \E i \in 1..Len(g.dims) : g.dims[i] = a

\* C3: an assignment of a sequence to an axis stores None for length 0, the
\* single element as a scalar for length 1, the sequence itself for length
\* two or more, lists the axis in dims exactly in the last case, at its
\* canonical position, and leaves every other axis, its membership in dims
\* and the name unchanged.
C3_AssignAxisEffect ==
    [][(op'.name = "setattr" /\ op'.n = op.n + 1 /\ op'.val.k = "array") =>
         LET a == op'.dim
             s == op'.val.v
         IN  /\ Len(s) = 0 => grid'[a] = PyNone /\ ~InDims(grid', a)
             /\ Len(s) = 1 => grid'[a] = PyScalar(s[1]) /\ ~InDims(grid', a)
             /\ Len(s) >= 2 => grid'[a] = PyArray(s) /\ InDims(grid', a)
             /\ grid'.dims = SelectSeq(correct_order,
                    LAMBDA b : IF b = a THEN Len(s) >= 2 ELSE InDims(grid, b))
             /\ \A b \in (AxisNames \cup {"name"}) \ {a} : grid'[b] = grid[b]
      ]_vars

\* C3 witness: a one-element sequence was assigned to an axis that was in dims;
\* the axis now holds the scalar and another axis is still in dims.
C3_Witness ==
    /\ op.name = "setattr" /\ op.val.k = "array" /\ Len(op.val.v) = 1
    /\ grid[op.dim] = PyScalar(op.val.v[1])
    /\ ~InDims(grid, op.dim)
    /\ Len(grid.dims) >= 1

\* ----------------------------------------------------------------- McField
\* An array is a shape and a function from index tuples to its elements.  An
\* element is the set of cells <<k, i1, ..., ir>> of the k-th constructed
\* Field it was computed from, so every operation's data can be traced.
RECURSIVE Idx(_)
Idx(shape) ==
    IF shape = <<>> THEN {<<>>}
    ELSE {<<h>> \o t : h \in 1..Head(shape), t \in Idx(Tail(shape))}

RECURSIVE NpProd(_)
NpProd(shape) == IF shape = <<>> THEN 1 ELSE Head(shape) * NpProd(Tail(shape))

RECURSIVE SortedSeq(_)
SortedSeq(S) ==
    IF S = {} THEN <<>>
    ELSE LET m == CHOOSE x \in S : \A y \in S : x <= y
         IN  <<m>> \o SortedSeq(S \ {m})

SeqRange(s) == {s[i] : i \in 1..Len(s)}

SeqMin(s) == CHOOSE x \in SeqRange(s) : \A y \in SeqRange(s) : x <= y

SeqMax(s) == CHOOSE x \in SeqRange(s) : \A y \in SeqRange(s) : x >= y

Abs(x) == IF x < 0 THEN -x ELSE x

\* the lengths of the axes of dims, in dims order
DimLens(g) == [j \in 1..Len(g.dims) |-> Len(g[g.dims[j]].v)]

\* McField.__init__: the data and the given grid; McGrid(name) when grid is None
McField(shape, data, g) == [grid |-> g, shape |-> shape, data |-> data]

\* testfield: np.arange(...).reshape(lengths of the grid's axes) on a grid
TestField(tag, g) ==
    McField(DimLens(g), [i \in Idx(DimLens(g)) |-> {<<tag>> \o i}], g)

AsField(f) == [NoRes EXCEPT !.kind = "field", !.grid = f.grid,
                            !.shape = f.shape, !.data = f.data]

Bare(shape, data) == [NoRes EXCEPT !.kind = "bare", !.shape = shape, !.data = data]

\* ------------------------------------------------------------ McGrid.gridmask
NoKw == [a \in AxisNames |-> PyNone]

CritTuple(a, b) == [k |-> "tuple", v |-> <<a, b>>]

CritList(s) == [k |-> "list", v |-> s]

\* np.argmin(np.abs(dimvalue - x)): the first position of the least distance
ArgminLast(dv, x) ==
    CHOOSE p \in 1..Len(dv) :
        /\ \A q \in 1..Len(dv) : Abs(dv[p] - x) <= Abs(dv[q] - x)
        /\ \A q \in (p + 1)..Len(dv) : Abs(dv[q] - x) > Abs(dv[p] - x)

Argmin(dv, x) ==
    CHOOSE p \in 1..Len(dv) :
        /\ \A q \in 1..Len(dv) : Abs(dv[p] - x) <= Abs(dv[q] - x)
        /\ \A q \in 1..(p - 1) : Abs(dv[q] - x) > Abs(dv[p] - x)

\* (dimvalue >= kwdmin) & (dimvalue <= kwdmax), as the positions that are True
RangeMaskOpen(dv, c) ==
    LET kwdmin == SeqMin(c.v)
        kwdmax == SeqMax(c.v)
    IN  {p \in 1..Len(dv) : dv[p] >= kwdmin /\ dv[p] < kwdmax}

RangeMask(dv, c) ==
    LET kwdmin == SeqMin(c.v)
        kwdmax == SeqMax(c.v)
    IN  {p \in 1..Len(dv) : dv[p] >= kwdmin /\ dv[p] <= kwdmax}

\* map(lambda x: x in dimvalue, kwdvalue): one boolean per element of the
\* list; np.ix_ turns it into the positions (in the list) that are True
ListMask(dv, c) == {j \in 1..Len(c.v) : c.v[j] \in SeqRange(dv)}

\* the out-of-domain test of a scalar criterion
OutOfDomainLow(dv, x) == x < SeqMin(dv)

OutOfDomain(dv, x) == x < SeqMin(dv) \/ x > SeqMax(dv)

\* the selector of one axis of dims, as np.ix_ passes it on: the ascending
\* positions its boolean mask holds True at
DimSelector(dv, c) ==
    IF c.k = "None" THEN [p \in 1..Len(dv) |-> p]
    ELSE IF c.k = "tuple" THEN SortedSeq(RangeMask(dv, c))
    ELSE IF c.k = "list" THEN SortedSeq(ListMask(dv, c))
    ELSE <<Argmin(dv, c.v[1])>>

\* McGrid.gridmask(**kwargs): kw is the keys of kwargs, crit is kwargs.get
Gridmask(g, kw, crit) ==
    IF \E i \in 1..Len(kw) : ~InDims(g, kw[i])
    THEN [err |-> "ValueError", keys |-> <<>>]
    ELSE IF \E j \in 1..Len(g.dims) :
               /\ crit[g.dims[j]].k = "scalar"
               /\ OutOfDomain(g[g.dims[j]].v, crit[g.dims[j]].v[1])
    THEN [err |-> "ValueError", keys |-> <<>>]
    ELSE [err |-> "",
          keys |-> [j \in 1..Len(g.dims) |->
                       DimSelector(g[g.dims[j]].v, crit[g.dims[j]])]]

\* ------------------------------------------------------- McField.__getitem__
\* keys is an open mesh (np.ix_): one sequence of positions per array axis
RawShape(keys) == [j \in 1..Len(keys) |-> Len(keys[j])]

\* np.ma.squeeze: the axes of length one are dropped
Squeezed(shape) == SelectSeq(shape, LAMBDA n : n # 1)

\* the index into the unsqueezed array of index i of the squeezed one
Unsqueeze(shape, i) ==
    [j \in 1..Len(shape) |->
        IF shape[j] = 1 THEN 1
        ELSE i[Cardinality({x \in 1..j : shape[x] # 1})]]

\* np.ma.asarray(self)[keys], then np.ma.squeeze
IndexedData(f, keys) ==
    [i \in Idx(Squeezed(RawShape(keys))) |->
        f.data[[j \in 1..Len(keys) |-> keys[j][Unsqueeze(RawShape(keys), i)[j]]]]]

\* np.unique(ind[j][keys]): the selected positions of axis j, sorted, once each
DimIdxKeepOrder(keys, j) == keys[j]

DimIdx(keys, j) == SortedSeq(SeqRange(keys[j]))

\* setattr(grid, dimname, getattr(grid, dimname)[idx]) over zip(dims, dimidx)
RECURSIVE RestrictGrid(_, _, _, _)
RestrictGrid(g, dims, keys, j) ==
    IF j > Len(dims) \/ j > Len(keys) THEN g
    ELSE LET dv == g[dims[j]].v
             idx == DimIdx(keys, j)
         IN  RestrictGrid(
                 SetAttr(g, dims[j], PyArray([p \in 1..Len(idx) |-> dv[idx[p]]])),
                 dims, keys, j + 1)

\* an index shorter than the rank takes the remaining axes whole
FullKeys(f, keys) ==
    [j \in 1..Len(f.shape) |->
        IF j <= Len(keys) THEN keys[j] ELSE [p \in 1..f.shape[j] |-> p]]

\* McField.__getitem__(keys): an IndexError of the array indexing propagates;
\* fewer than two elements give the bare data; a failure while the grid is
\* restricted gives the bare data too.
GetItem(f, keys) ==
    IF \/ Len(keys) > Len(f.shape)
       \/ \E j \in 1..Len(keys) : \E p \in 1..Len(keys[j]) :
              keys[j][p] < 1 \/ keys[j][p] > f.shape[j]
    THEN Raise("IndexError")
    ELSE LET full == FullKeys(f, keys)
             data == IndexedData(f, full)
             shape == Squeezed(RawShape(full))
         IN  IF NpProd(shape) < 2 THEN Bare(shape, data)
             ELSE IF \E j \in 1..Len(f.grid.dims) :
                        /\ j <= Len(full)
                        /\ \/ f.grid[f.grid.dims[j]].k # "array"
                           \/ \E p \in 1..Len(full[j]) :
                                 full[j][p] > Len(f.grid[f.grid.dims[j]].v)
             THEN Bare(shape, data)
             ELSE AsField(McField(shape, data,
                      RestrictGrid(GridCopy(f.grid), f.grid.dims, full, 1)))

\* McField.get(**kwargs)
Get(f, kw, crit) ==
    LET mask == Gridmask(f.grid, kw, crit)
    IN  IF mask.err # "" THEN Raise(mask.err) ELSE GetItem(f, mask.keys)

\* ------------------------------------------------ the selection specification
\* Receivers: a Field built as testfield builds it, on a grid of one or two
\* axes; one axis holds any sequence of distinct coordinates (in any order),
\* the other a short ramp.
AxisSeqs ==
    {s \in SeqsUpTo(Coords, 2, MaxLen) :
        \A i, j \in 1..Len(s) : i # j => s[i] # s[j]}

ShortRamp(a) == IF a \in {"lat", "lev"} THEN Desc(2) ELSE Asc(2)

ReceiverGrid(focus, s, others) ==
    LET arg(a) == IF a = focus THEN PyArray(s)
                  ELSE IF a \in others THEN PyArray(ShortRamp(a)) ELSE PyNone
    IN  McGridInit(PyScalar(0), arg("lon"), arg("lat"), arg("lev"), arg("time"),
                   arg("ens"))

Receivers(seqs) ==
    {TestField(1, ReceiverGrid(focus, s, others)) :
        focus \in AxisNames, s \in seqs,
        others \in {o \in SUBSET AxisNames : Cardinality(o) <= 1}}

\* criterion values reach one step outside the coordinate range
CritVals == (-1)..(MaxCoord + 1)

Criteria ==
    {CritTuple(a, b) : a \in CritVals, b \in CritVals}
    \cup {CritList(s) : s \in SeqsUpTo(CritVals, 1, 2)}
    \cup {PyScalar(x) : x \in CritVals}

SelectInit ==
    /\ fld \in Receivers(AxisSeqs)
    /\ grid = EmptyGrid
    /\ args = NoArgs
    /\ op = NoOp
    /\ res = NoRes
    /\ heap = NoHeap

\* field.get(<name> = criterion)
DoGet ==
    /\ op.name = "none"
    /\ \E a \in AxisNames, c \in Criteria :
          /\ InDims(fld.grid, a) \/ c = CritTuple(0, MaxCoord)
          /\ op' = [NoOp EXCEPT !.name = "get", !.dim = a, !.val = c, !.kw = <<a>>]
          /\ res' = Get(fld, <<a>>, [NoKw EXCEPT ![a] = c])
    /\ UNCHANGED <<grid, fld, args, heap>>

\* field[np.ix_(...)] with a list of positions on one axis, all of the others
DoIndex ==
    /\ op.name = "none"
    /\ \E j \in 1..Len(fld.shape), l \in SeqsUpTo(1..MaxLen, 1, 2) :
          /\ op' = [NoOp EXCEPT !.name = "index", !.dim = fld.grid.dims[j],
                                !.val = PyArray(l)]
          /\ res' = GetItem(fld, [x \in 1..Len(fld.shape) |->
                         IF x = j THEN l ELSE [p \in 1..fld.shape[x] |-> p]])
    /\ UNCHANGED <<grid, fld, args, heap>>

SelectNext == DoGet \/ DoIndex

SelectSpec == SelectInit /\ [][SelectNext]_vars

\* rank and per-axis lengths of an array agree with the grid's dims
Consistent(f) ==
    /\ Len(f.shape) = Len(f.grid.dims)
    /\ \A j \in 1..Len(f.shape) :
          /\ f.grid[f.grid.dims[j]].k = "array"
          /\ Len(f.grid[f.grid.dims[j]].v) = f.shape[j]

\* C2: every Field an operation returns has an array whose rank is the length
\* of its grid's dims and whose length on each axis is the length of the
\* grid axis of that name.
C2_ReturnedFieldConsistent == res.kind = "field" => Consistent(res)

\* --- what selecting the positions sel of axis a of the receiver must give
PosOf(seq, a) == CHOOSE j \in 1..Len(seq) : seq[j] = a

\* the coordinates of axis a at the positions sel, stored by the Grid's rule
\* (a scalar for one position, the sequence for two or more)
CoordsAt(f, a, sel) ==
    IF Len(sel) = 1 THEN PyScalar(f.grid[a].v[sel[1]])
    ELSE PyArray([p \in 1..Len(sel) |-> f.grid[a].v[sel[p]]])

\* the receiver index that result index i holds, when axis a was narrowed to
\* the positions sel and every other axis was kept whole
OrigIndex(f, r, a, sel, i) ==
    [j \in 1..Len(f.grid.dims) |->
        IF f.grid.dims[j] = a
        THEN IF Len(sel) = 1 THEN sel[1] ELSE sel[i[PosOf(r.grid.dims, a)]]
        ELSE i[PosOf(r.grid.dims, f.grid.dims[j])]]

\* r is the Field that narrows axis a of f to the positions sel (Len(sel) >= 1)
NarrowedTo(f, r, a, sel) ==
    /\ r.grid[a] = CoordsAt(f, a, sel)
    /\ \A b \in (AxisNames \cup {"name"}) \ {a} : r.grid[b] = f.grid[b]
    /\ r.grid.dims = SelectSeq(f.grid.dims, LAMBDA b : b # a \/ Len(sel) >= 2)
    /\ r.shape = [j \in 1..Len(r.grid.dims) |->
                    IF r.grid.dims[j] = a THEN Len(sel)
                    ELSE Len(f.grid[r.grid.dims[j]].v)]
    /\ DOMAIN r.data = Idx(r.shape)
    /\ \A i \in DOMAIN r.data : r.data[i] = f.data[OrigIndex(f, r, a, sel, i)]

\* the positions of dv, ascending, whose coordinate lies in [lo, hi]
InRange(dv, lo, hi) ==
    SelectSeq([p \in 1..Len(dv) |-> p], LAMBDA p : lo <= dv[p] /\ dv[p] <= hi)

Lo(c) == IF c.v[1] <= c.v[2] THEN c.v[1] ELSE c.v[2]

Hi(c) == IF c.v[1] <= c.v[2] THEN c.v[2] ELSE c.v[1]

GetOn(kind) == op.name = "get" /\ op.val.k = kind /\ InDims(fld.grid, op.dim)

\* C4: get with a range (a, b) on an axis never fails; a Field it returns
\* holds, on that axis, exactly the original coordinates within
\* [min(a,b), max(a,b)] in original order, the data of those positions, and
\* every other axis unchanged; it returns the bare data only when fewer than
\* two elements are selected.
C4_RangeSelect ==
    GetOn("tuple") =>
        LET sel == InRange(fld.grid[op.dim].v, Lo(op.val), Hi(op.val))
        IN  /\ res.kind \in {"field", "bare"}
            /\ res.kind = "field" => NarrowedTo(fld, res, op.dim, sel)
            /\ res.kind = "bare" =>
                  Len(sel) * NpProd(fld.shape) < 2 * Len(fld.grid[op.dim].v)

\* C4 witness: a range given as (larger, smaller) whose two ends both are
\* coordinates kept a proper part, of two or more positions, of the axis.
C4_Witness ==
    /\ GetOn("tuple") /\ res.kind = "field"
    /\ op.val.v[1] > op.val.v[2]
    /\ res.grid[op.dim].k = "array"
    /\ Len(res.grid[op.dim].v) < Len(fld.grid[op.dim].v)
    /\ {op.val.v[1], op.val.v[2]} \subseteq SeqRange(res.grid[op.dim].v)
    /\ Len(res.shape) = 2

\* C5: get with a list on an axis never fails, and a Field it returns holds,
\* on that axis, exactly the original coordinates that are members of the
\* list, with the data of those positions.
C5_ListSelect ==
    GetOn("list") =>
        LET dv == fld.grid[op.dim].v
            sel == SelectSeq([p \in 1..Len(dv) |-> p],
                             LAMBDA p : dv[p] \in SeqRange(op.val.v))
        IN  /\ res.kind \in {"field", "bare"}
            /\ res.kind = "field" => NarrowedTo(fld, res, op.dim, sel)

\* C6: get with a scalar v on an axis fails with ValueError exactly when v is
\* below the least or above the greatest coordinate; otherwise one position
\* is selected, one whose coordinate is nearest to v: a Field it returns
\* holds that coordinate as a scalar, has the axis out of dims, holds the data
\* of that position and every other axis unchanged.
C6_ScalarSelect ==
    GetOn("scalar") =>
        LET dv == fld.grid[op.dim].v
            x == op.val.v[1]
        IN  IF x < SeqMin(dv) \/ x > SeqMax(dv)
            THEN res.kind = "error" /\ res.err = "ValueError"
            ELSE /\ res.kind \in {"field", "bare"}
                 /\ res.kind = "bare" => Len(fld.shape) = 1
                 /\ res.kind = "field" =>
                       \E p \in 1..Len(dv) :
                          /\ \A q \in 1..Len(dv) : Abs(dv[p] - x) <= Abs(dv[q] - x)
                          /\ NarrowedTo(fld, res, op.dim, <<p>>)
                          /\ ~InDims(res.grid, op.dim)

\* C6 witness: a scalar inside the coordinate range that is not a coordinate
\* selected one position of an axis of a two-axis Field, and a Field of one
\* axis came back.
C6_Witness ==
    /\ GetOn("scalar") /\ res.kind = "field"
    /\ op.val.v[1] \notin SeqRange(fld.grid[op.dim].v)
    /\ Len(fld.shape) = 2 /\ Len(res.shape) = 1
    /\ res.grid[op.dim].k = "scalar"

\* --------------------------------------------------------------------- join
RECURSIVE SumTo(_, _)
SumTo(lens, m) == IF m = 0 THEN 0 ELSE lens[m] + SumTo(lens, m - 1)

\* np.hstack of the inputs' coordinate sequences, in input order
RECURSIVE HstackFirstOnly(_)
HstackFirstOnly(seqs) == IF seqs = <<>> THEN <<>> ELSE Head(seqs)

RECURSIVE Hstack(_)
Hstack(seqs) == IF seqs = <<>> THEN <<>> ELSE Head(seqs) \o Hstack(Tail(seqs))

\* the argument checks of join: "" when they pass
JoinArgcheckAtLeastOne(a) ==
    IF ~a.islist THEN "TypeError"
    ELSE IF Len(a.items) < 1 THEN "ValueError"
    ELSE IF \E m \in 1..Len(a.items) : ~a.items[m].isField THEN "TypeError"
    ELSE ""

JoinArgcheck(a) ==
    IF ~a.islist THEN "TypeError"
    ELSE IF Len(a.items) < 2 THEN "ValueError"
    ELSE IF \E m \in 1..Len(a.items) : ~a.items[m].isField THEN "TypeError"
    ELSE ""

\* np.ma.concatenate(args, axis=k): the inputs must have one rank and equal
\* lengths on every axis but k (k is 1-based here)
ConcatFails(fs, k) ==
    \E m \in 1..Len(fs) :
        \/ Len(fs[m].shape) # Len(fs[1].shape)
        \/ k > Len(fs[m].shape)
        \/ \E j \in 1..Len(fs[1].shape) : j # k /\ fs[m].shape[j] # fs[1].shape[j]

ConcatShape(fs, k) ==
    [j \in 1..Len(fs[1].shape) |->
        IF j = k THEN SumTo([m \in 1..Len(fs) |-> fs[m].shape[k]], Len(fs))
        ELSE fs[1].shape[j]]

\* the input that position p of the joined axis comes from
ConcatPart(fs, k, p) ==
    CHOOSE m \in 1..Len(fs) :
        LET lens == [x \in 1..Len(fs) |-> fs[x].shape[k]]
        IN  SumTo(lens, m - 1) < p /\ p <= SumTo(lens, m)

ConcatData(fs, k) ==
    [i \in Idx(ConcatShape(fs, k)) |->
        LET m == ConcatPart(fs, k, i[k])
            off == SumTo([x \in 1..Len(fs) |-> fs[x].shape[k]], m - 1)
        IN  fs[m].data[[i EXCEPT ![k] = i[k] - off]]]

\* join(args, axis): axis is a dimension name (k = "name") or a position
\* (k = "pos", 0-based as in Python)
Join(a, axis) ==
    IF JoinArgcheck(a) # "" THEN Raise(JoinArgcheck(a))
    ELSE
      LET fs == [m \in 1..Len(a.items) |-> a.items[m].f]
          g == GridCopy(fs[1].grid)
      IN  IF axis.k = "name" /\ ~InDims(g, axis.v) THEN Raise("ValueError")
          ELSE IF axis.k = "pos" /\ axis.v >= Len(g.dims) THEN Raise("IndexError")
          ELSE
            LET k == IF axis.k = "name" THEN PosOf(g.dims, axis.v) ELSE axis.v + 1
                dimname == g.dims[k]
            IN  IF ConcatFails(fs, k) THEN Raise("ValueError")
                \* None (and a Python scalar) has no copy()
                ELSE IF \E m \in 1..Len(fs) : fs[m].grid[dimname].k # "array"
                THEN Raise("AttributeError")
                ELSE AsField(McField(ConcatShape(fs, k), ConcatData(fs, k),
                        SetAttr(g, dimname,
                            PyArray(Hstack([m \in 1..Len(fs) |->
                                               fs[m].grid[dimname].v])))))

\* ----------------------------------------------------- the join specification
MaxArgs == 2

\* inputs: Fields over time and at most one more axis, or something that is
\* no Field
JoinGrids ==
    {McGridInit(PyScalar(0), PyNone, lat, PyNone, PyArray(t), ens) :
        t \in Ramps(2, MaxLen),
        lat \in {PyNone, PyArray(Desc(2)), PyArray(Desc(MaxLen))},
        ens \in {PyNone, PyArray(Asc(2)), PyArray(Asc(MaxLen))}}

JoinItems(m) ==
    {[isField |-> TRUE, f |-> TestField(m, g)] :
        g \in {x \in JoinGrids : Len(x.dims) <= 2}}
    \cup {[isField |-> FALSE, f |-> NoField]}

JoinInit ==
    /\ \E n \in 0..MaxArgs, islist \in BOOLEAN :
          /\ islist \/ n = 1
          /\ \E pick \in [1..n -> JoinItems(0)] :
                args = [islist |-> islist,
                        items |-> [m \in 1..n |->
                            IF pick[m].isField
                            THEN [pick[m] EXCEPT !.f = TestField(m, pick[m].f.grid)]
                            ELSE pick[m]]]
    /\ grid = EmptyGrid
    /\ fld = NoField
    /\ op = NoOp
    /\ res = NoRes
    /\ heap = NoHeap

JoinAxes ==
    {[k |-> "name", v |-> a] : a \in {"time", "lat", "ens", "lon"}}
    \cup {[k |-> "pos", v |-> x] : x \in 0..2}

\* join(args, axis)
DoJoin ==
    /\ op.name = "none"
    /\ \E axis \in JoinAxes :
          /\ op' = [NoOp EXCEPT !.name = "join", !.val = axis]
          /\ res' = Join(args, axis)
    /\ UNCHANGED <<grid, fld, args, heap>>

JoinNext == DoJoin

JoinSpec == JoinInit /\ [][JoinNext]_vars

\* the 1-based position of the join axis in the first input, 0 when the
\* axis argument names none
JoinPos ==
    LET d == args.items[1].f.grid.dims
    IN  IF op.val.k = "name"
        THEN IF \E j \in 1..Len(d) : d[j] = op.val.v THEN PosOf(d, op.val.v) ELSE 0
        ELSE IF op.val.v < Len(d) THEN op.val.v + 1 ELSE 0

AllFields ==
    /\ args.islist /\ Len(args.items) >= 2
    /\ \A m \in 1..Len(args.items) : args.items[m].isField

\* the inputs are two or more Fields that share the join axis, at one
\* position, and their lengths on every other axis
Joinable ==
    /\ AllFields /\ JoinPos > 0
    /\ \A m \in 1..Len(args.items) :
          LET f == args.items[m].f
              f1 == args.items[1].f
          IN  /\ Len(f.shape) = Len(f1.shape)
              /\ f.grid.dims[JoinPos] = f1.grid.dims[JoinPos]
              /\ \A j \in 1..Len(f1.shape) : j # JoinPos => f.shape[j] = f1.shape[j]

\* C7: join of two or more Fields that share the join axis and their other
\* lengths returns a Field whose length on that axis is the sum of the
\* inputs' lengths, whose other lengths are the inputs', whose coordinates
\* on the join axis are the inputs' coordinates one input after the other
\* (as given: not sorted, duplicates kept), and whose data are the inputs'
\* data in the same order.
C7_JoinConcatenates ==
    op.name = "join" /\ Joinable =>
        /\ res.kind = "field"
        /\    LET k == JoinPos
                  n == Len(args.items)
                  a == args.items[1].f.grid.dims[k]
                  lens == [m \in 1..n |-> args.items[m].f.shape[k]]
              IN  /\ Len(res.shape) = Len(args.items[1].f.shape)
                  /\ res.shape[k] = SumTo(lens, n)
                  /\ \A m \in 1..n : \A j \in 1..Len(res.shape) :
                        j # k => res.shape[j] = args.items[m].f.shape[j]
                  /\ res.grid[a].k = "array"
                  /\ Len(res.grid[a].v) = SumTo(lens, n)
                  /\ \A m \in 1..n : \A p \in 1..lens[m] :
                        res.grid[a].v[SumTo(lens, m - 1) + p]
                            = args.items[m].f.grid[a].v[p]
                  /\ \A b \in (AxisNames \cup {"name"}) \ {a} :
                        res.grid[b] = args.items[1].f.grid[b]
                  /\ DOMAIN res.data = Idx(res.shape)
                  /\ \A m \in 1..n : \A i \in DOMAIN args.items[m].f.data :
                        res.data[[i EXCEPT ![k] = i[k] + SumTo(lens, m - 1)]]
                            = args.items[m].f.data[i]

\* C7 witness: two Fields of two axes whose time coordinates overlap and are
\* out of order were joined along time.
C7_Witness ==
    /\ op.name = "join" /\ Joinable /\ res.kind = "field"
    /\ Len(res.shape) = 2
    /\ res.grid.time.k = "array"
    /\ Len(res.grid.time.v) > Len(args.items[1].f.grid.time.v)
    /\ \E p, q \in 1..Len(res.grid.time.v) :
          p < q /\ res.grid.time.v[p] >= res.grid.time.v[q]

\* two inputs differ in rank or in length on an axis other than the join axis
ShapesDiffer ==
    /\ AllFields /\ JoinPos > 0
    /\ \E m \in 1..Len(args.items) :
          \/ Len(args.items[m].f.shape) # Len(args.items[1].f.shape)
          \/ \E j \in 1..Len(args.items[1].f.shape) :
                /\ j # JoinPos /\ j <= Len(args.items[m].f.shape)
                /\ args.items[m].f.shape[j] # args.items[1].f.shape[j]

\* C8: join raises, and returns no Field, when its argument is no list or
\* tuple, holds fewer than two inputs, holds an input that is no Field, or
\* holds two Fields that differ in length on an axis other than the join
\* axis; no call of join changes its inputs.
C8_JoinRejects ==
    [][op'.name = "join" =>
         /\ args' = args
         /\ (~args.islist => res'.kind = "error" /\ res'.err = "TypeError")
         /\ (args.islist /\ Len(args.items) < 2 =>
                res'.kind = "error" /\ res'.err = "ValueError")
         /\ (args.islist /\ Len(args.items) >= 2
                /\ (\E m \in 1..Len(args.items) : ~args.items[m].isField) =>
                res'.kind = "error" /\ res'.err = "TypeError")
         /\ ShapesDiffer' => res'.kind = "error"
      ]_vars

\* C8 witness: join of two Fields along time failed because their second
\* axes differ in length.
C8_Witness ==
    /\ op.name = "join" /\ res.kind = "error"
    /\ ShapesDiffer
    /\ op.val = [k |-> "name", v |-> "time"]
    /\ \A m \in 1..Len(args.items) : InDims(args.items[m].f.grid, "time")

\* ------------------------------------------------------------------- runave
\* seq[start:stop] of Python (0-based, a negative index counts from the end,
\* indices clipped to the sequence)
PySlice(seq, start, stop) ==
    LET n == Len(seq)
        clip(x) == IF x < 0 THEN (IF x + n < 0 THEN 0 ELSE x + n)
                   ELSE IF x > n THEN n ELSE x
        a == clip(start)
        b == clip(stop)
    IN  IF b <= a THEN <<>> ELSE SubSeq(seq, a + 1, b)

\* pymet.stats.runave(data, length, axis, bound): the length of the result
\* on the time axis; 'mask' keeps n, 'valid' keeps the fully covered
\* positions, length/2 (floor) fewer at each end
StatsRunaveLen(n, length, bound) ==
    IF bound = "valid"
    THEN (IF n - 2 * (length \div 2) < 0 THEN 0 ELSE n - 2 * (length \div 2))
    ELSE n

\* the positions of the original series that position p of the result
\* averages: the centred window, nothing where 'mask' has no full window
StatsRunaveWindow(n, length, bound, p) ==
    LET h == length \div 2
        c == IF bound = "valid" THEN p + h ELSE p
    IN  IF c - h >= 1 /\ c + h <= n THEN (c - h)..(c + h) ELSE {}

StatsRunave(shape, data, length, t, bound) ==
    LET rshape == [shape EXCEPT ![t] = StatsRunaveLen(shape[t], length, bound)]
    IN  [shape |-> rshape,
         data  |-> [i \in Idx(rshape) |->
                      UNION {data[[i EXCEPT ![t] = q]] :
                               q \in StatsRunaveWindow(shape[t], length, bound, i[t])}]]

\* grid.time[length/2:-length/2] with the integer division of Python 2:
\* -length/2 is (-length) divided by 2, rounded down
RunaveTime(time, length) ==
    PySlice(time, length \div 2, (0 - length) \div 2)

\* McField.runave(length, bound)
Runave(f, length, bound) ==
    LET g == GridCopy(f.grid)
    IN  IF ~InDims(g, "time") THEN Raise("AttributeError")
        ELSE
          LET t == PosOf(g.dims, "time")
              r == StatsRunave(f.shape, f.data, length, t, bound)
          IN  IF NpProd(r.shape) < 2 THEN Bare(r.shape, r.data)
              ELSE IF bound = "valid"
              THEN AsField(McField(r.shape, r.data,
                      SetAttr(g, "time", PyArray(RunaveTime(g.time.v, length)))))
              ELSE AsField(McField(r.shape, r.data, g))

\* --------------------------------------------------- the runave specification
MaxTime == 10

\* receivers: a time series of 2..MaxTime samples, alone or with a latitude
\* axis of two, and a Field without a time axis
RunaveGrids ==
    {McGridInit(PyScalar(0), PyNone, lat, PyNone, PyArray(Asc(n)), PyNone) :
        n \in 2..MaxTime, lat \in {PyNone, PyArray(Desc(2))}}
    \cup {McGridInit(PyScalar(0), PyNone, PyArray(Desc(2)), PyNone, PyNone, PyNone)}

RunaveInit ==
    /\ fld \in {TestField(1, g) : g \in RunaveGrids}
    /\ grid = EmptyGrid
    /\ args = NoArgs
    /\ op = NoOp
    /\ res = NoRes
    /\ heap = NoHeap

\* field.runave(length, bound)
DoRunave ==
    /\ op.name = "none"
    /\ \E length \in 1..MaxTime, bound \in {"mask", "valid"} :
          /\ op' = [NoOp EXCEPT !.name = "runave", !.dim = bound, !.n = length]
          /\ res' = Runave(fld, length, bound)
    /\ UNCHANGED <<grid, fld, args, heap>>

RunaveNext == DoRunave

RunaveSpec == RunaveInit /\ [][RunaveNext]_vars

\* the coordinates a Grid holds on axis a, as a sequence
CoordSeq(g, a) == IF g[a].k = "None" THEN <<>> ELSE g[a].v

\* C9: runave with bound 'valid' and window length L on a Field with n >= L
\* time samples returns a Field whose time coordinate is the original one
\* without its first and last floor(L/2) samples, as long as the result
\* array's time axis.
C9_RunaveValidTime ==
    (/\ op.name = "runave" /\ op.dim = "valid"
     /\ InDims(fld.grid, "time")
     /\ Len(fld.grid.time.v) >= op.n
     /\ res.kind = "field") =>
        LET n == Len(fld.grid.time.v)
            h == op.n \div 2
            t == PosOf(fld.grid.dims, "time")
        IN  /\ CoordSeq(res.grid, "time") = SubSeq(fld.grid.time.v, h + 1, n - h)
            /\ Len(CoordSeq(res.grid, "time")) = res.shape[t]

\* ---------------------------------------------------------------- mean, sum
\* McGrid.dimindex(dimnames, filtered=True): the 0-based positions in dims of
\* the names that dims holds, in the order the names are given
RECURSIVE DimindexFiltered(_, _)
DimindexFiltered(g, dimnames) ==
    IF dimnames = <<>> THEN <<>>
    ELSE IF InDims(g, Head(dimnames))
         THEN <<PosOf(g.dims, Head(dimnames)) - 1>> \o DimindexFiltered(g, Tail(dimnames))
         ELSE DimindexFiltered(g, Tail(dimnames))

\* the 1-based position that a Python index x means in a sequence of n
\* elements (a negative x counts from the end); 0 when x is out of range
PyIndex(x, n) ==
    IF x >= 0 THEN (IF x < n THEN x + 1 ELSE 0)
    ELSE (IF x + n >= 0 THEN x + n + 1 ELSE 0)

\* result.mean(axis=k) / result.sum(axis=k) of the array (k is 1-based here):
\* axis k is removed, each element gathers the elements along it
ReduceShape(shape, k) ==
    [j \in 1..(Len(shape) - 1) |-> IF j < k THEN shape[j] ELSE shape[j + 1]]

ReduceData(shape, data, k) ==
    [i \in Idx(ReduceShape(shape, k)) |->
        UNION {data[[j \in 1..Len(shape) |->
                        IF j < k THEN i[j] ELSE IF j = k THEN q ELSE i[j - 1]]] :
                 q \in 1..shape[k]}]

\* result.mean() / result.sum() with axis=None: one element
ReduceAll(shape, data) ==
    [i \in {<<>>} |-> UNION {data[j] : j \in Idx(shape)}]

\* for i, axis in enumerate(axes): result = result.mean(axis=axis-i)
RECURSIVE ReduceLoop(_, _, _)
ReduceLoop(r, axes, i) ==
    IF r.err # "" \/ i > Len(axes) THEN r
    ELSE LET k == PyIndex(axes[i] - (i - 1), Len(r.shape))
         IN  IF k = 0 THEN [r EXCEPT !.err = "ValueError"]
             ELSE ReduceLoop([err |-> "", shape |-> ReduceShape(r.shape, k),
                              data |-> ReduceData(r.shape, r.data, k)],
                             axes, i + 1)

\* for i, axis in enumerate(axes): setattr(grid, grid.dims[axis-i], None)
RECURSIVE NullLoop(_, _, _)
NullLoop(r, axes, i) ==
    IF r.err # "" \/ i > Len(axes) THEN r
    ELSE LET k == PyIndex(axes[i] - (i - 1), Len(r.grid.dims))
         IN  IF k = 0 THEN [r EXCEPT !.err = "IndexError"]
             ELSE NullLoop([err |-> "", grid |-> SetAttr(r.grid, r.grid.dims[k], PyNone)],
                           axes, i + 1)

\* the tail of mean and sum: a result without axes is returned bare, else
\* the reduced axes are set to None in the copied grid
ReduceReturn(r, g, axes) ==
    IF r.err # "" THEN Raise(r.err)
    ELSE IF Len(r.shape) = 0 THEN Bare(r.shape, r.data)
    ELSE LET n == NullLoop([err |-> "", grid |-> g], axes, 1)
         IN  IF n.err # "" THEN Raise(n.err)
             ELSE AsField(McField(r.shape, r.data, n.grid))

\* mean(**kwargs) / sum(**kwargs): kw is kwargs.keys() in the order the
\* dictionary iterates them, crit is kwargs.get
RegionReduce(f, kw, crit) ==
    LET field == Get(f, kw, crit)
    IN  IF field.kind = "error" THEN field
        \* the bare data that get returns has no attribute grid
        ELSE IF field.kind = "bare" THEN Raise("AttributeError")
        ELSE LET g == GridCopy(field.grid)
                 axes == DimindexFiltered(g, kw)
             IN  ReduceReturn(
                     ReduceLoop([err |-> "", shape |-> field.shape, data |-> field.data],
                                axes, 1),
                     g, axes)

\* mean(axis=axis) / sum(axis=axis): axis is None or a Python int
AxisReduce(f, axis) ==
    IF axis.k = "None" THEN Bare(<<>>, ReduceAll(f.shape, f.data))
    ELSE LET k == PyIndex(axis.v[1], Len(f.shape))
         IN  IF k = 0 THEN Raise("ValueError")
             ELSE ReduceReturn([err |-> "", shape |-> ReduceShape(f.shape, k),
                                data |-> ReduceData(f.shape, f.data, k)],
                               GridCopy(f.grid), <<axis.v[1]>>)

\* McField.mean(axis, **kwargs)
Mean(f, axis, kw, crit) ==
    IF Len(kw) # 0 THEN RegionReduce(f, kw, crit) ELSE AxisReduce(f, axis)

\* McField.sum(axis, **kwargs)
Sum(f, axis, kw, crit) ==
    IF Len(kw) # 0 THEN RegionReduce(f, kw, crit) ELSE AxisReduce(f, axis)

\* ------------------------------------------------ the reduction specification
\* receivers: testfield on two or three axes of MaxLen coordinates each
ReduceGrids ==
    {LET arg(a) == IF a \in A
                   THEN PyArray(IF a \in {"lat", "lev"} THEN Desc(MaxLen) ELSE Asc(MaxLen))
                   ELSE PyNone
     IN  McGridInit(PyScalar(0), arg("lon"), arg("lat"), arg("lev"), arg("time"),
                    arg("ens")) :
        A \in {X \in SUBSET AxisNames : Cardinality(X) \in {2, 3}}}

ReduceInit ==
    /\ fld \in {TestField(1, g) : g \in ReduceGrids}
    /\ grid = EmptyGrid
    /\ args = NoArgs
    /\ op = NoOp
    /\ res = NoRes
    /\ heap = NoHeap

\* the keyword dictionaries of a region call: one or two axis names in either
\* iteration order, each with a range that keeps the axis whole, narrows it
\* to two coordinates or narrows it to one
ReduceRanges == {CritTuple(0, MaxCoord + 1), CritTuple(0, 1), CritTuple(1, 1)}

ReduceKeys ==
    {k \in SeqsUpTo(AxisNames, 1, 2) : \A i, j \in 1..Len(k) : i # j => k[i] # k[j]}

ReduceKwargs(kw) ==
    {c \in [AxisNames -> ReduceRanges \cup {PyNone}] :
        \A a \in AxisNames : c[a] = PyNone <=> a \notin SeqRange(kw)}

ReduceAxisArgs == {PyNone} \cup {PyScalar(x) : x \in (-1)..2}

\* field.mean(<name> = range, ...)
DoMeanRegion ==
    /\ op.name = "none"
    /\ \E kw \in ReduceKeys : \E crit \in ReduceKwargs(kw) :
          /\ op' = [NoOp EXCEPT !.name = "mean", !.dim = "region", !.kw = kw, !.val = crit]
          /\ res' = Mean(fld, PyNone, kw, crit)
    /\ UNCHANGED <<grid, fld, args, heap>>

\* field.sum(<name> = range, ...)
DoSumRegion ==
    /\ op.name = "none"
    /\ \E kw \in ReduceKeys : \E crit \in ReduceKwargs(kw) :
          /\ op' = [NoOp EXCEPT !.name = "sum", !.dim = "region", !.kw = kw, !.val = crit]
          /\ res' = Sum(fld, PyNone, kw, crit)
    /\ UNCHANGED <<grid, fld, args, heap>>

\* field.mean(axis=axis)
DoMeanAxis ==
    /\ op.name = "none"
    /\ \E axis \in ReduceAxisArgs :
          /\ op' = [NoOp EXCEPT !.name = "mean", !.dim = "axis", !.val = axis]
          /\ res' = Mean(fld, axis, <<>>, NoKw)
    /\ UNCHANGED <<grid, fld, args, heap>>

\* field.sum(axis=axis)
DoSumAxis ==
    /\ op.name = "none"
    /\ \E axis \in ReduceAxisArgs :
          /\ op' = [NoOp EXCEPT !.name = "sum", !.dim = "axis", !.val = axis]
          /\ res' = Sum(fld, axis, <<>>, NoKw)
    /\ UNCHANGED <<grid, fld, args, heap>>

ReduceNext == DoMeanRegion \/ DoSumRegion \/ DoMeanAxis \/ DoSumAxis

ReduceSpec == ReduceInit /\ [][ReduceNext]_vars

\* the Field that the keywords of the call narrow the receiver to
Narrowed == Get(fld, op.kw, op.val)

\* the axes of the narrowed Field that the call does not name
KeptDims == SelectSeq(Narrowed.grid.dims, LAMBDA a : a \notin SeqRange(op.kw))

\* C10: a region call of mean or sum that names the axes S returns a result
\* whose grid holds, in dims, the axes of the narrowed Field outside S with
\* their coordinates, and whose array gathers the narrowed data over exactly
\* the axes of S, in whatever order the keywords are iterated.
C10_RegionReduce ==
    (/\ op.name \in {"mean", "sum"} /\ op.dim = "region"
     /\ Narrowed.kind = "field"
     /\ KeptDims # <<>>) =>
        /\ res.kind = "field"
        /\ res.grid.dims = KeptDims
        /\ \A a \in SeqRange(KeptDims) : res.grid[a] = Narrowed.grid[a]
        /\ res.shape = [j \in 1..Len(KeptDims) |-> Len(Narrowed.grid[KeptDims[j]].v)]
        /\ DOMAIN res.data = Idx(res.shape)
        /\ \A i \in DOMAIN res.data :
              res.data[i] =
                 UNION {Narrowed.data[x] :
                          x \in {y \in Idx(Narrowed.shape) :
                                   \A j \in 1..Len(KeptDims) :
                                      y[PosOf(Narrowed.grid.dims, KeptDims[j])] = i[j]}}

\* ------------------------------------------------------------ object identity
\* heap is the sequence of the objects allocated so far; an object's address
\* is its position.  An attribute of a McGrid object holds None, a scalar or
\* a reference to an ndarray; its dims attribute is the address of a list.
Ref(a) == [k |-> "ref", v |-> <<a>>]

NdArray(s) == [k |-> "ndarray", v |-> s]

PyList(s) == [k |-> "list", v |-> s]

Alloc(h, obj) == Append(h, obj)

\* the value an attribute holds, a referenced array read out
Deref(h, slot) == IF slot.k = "ref" THEN PyArray(h[slot.v[1]].v) ELSE slot

\* the McGrid object at address id, as the values of its attributes
GridView(h, id) ==
    [name |-> h[id].name, dims |-> h[h[id].dims].v,
     lon |-> Deref(h, h[id].lon), lat |-> Deref(h, h[id].lat),
     lev |-> Deref(h, h[id].lev), time |-> Deref(h, h[id].time),
     ens |-> Deref(h, h[id].ens)]

\* McGrid.__setattr__ on the object at id.  np.asarray makes a new ndarray of
\* a caller's sequence and returns an ndarray as it is; the dims list is
\* changed in place.
HeapSetAttr(h, id, name, value) ==
    IF name \in AxisNames
    THEN LET given == Deref(h, value)
             stored == StoredAxis(given)
             h1 == IF stored.k = "array" /\ value.k # "ref"
                   THEN Alloc(h, NdArray(stored.v)) ELSE h
             slot == IF stored.k # "array" THEN stored
                     ELSE IF value.k = "ref" THEN value ELSE Ref(Len(h1))
             d == h[id].dims
         IN  [h1 EXCEPT ![id][name] = slot,
                        ![d].v = Setdimsattr(@, name,
                                    IF NpSize(given) >= 2 THEN "add" ELSE "remove")]
    ELSE [h EXCEPT ![id][name] = value]

\* McGrid(name, lon, lat, lev, time, ens): the new object is the last but
\* the arrays its axes needed
HeapMcGrid(h, name, lon, lat, lev, time, ens) ==
    LET h0 == Alloc(h, PyList(correct_order))
        h1 == Alloc(h0, [k |-> "McGrid", name |-> PyNone, dims |-> Len(h0),
                         lon |-> PyNone, lat |-> PyNone, lev |-> PyNone,
                         time |-> PyNone, ens |-> PyNone])
        id == Len(h1)
        g1 == HeapSetAttr(h1, id, "name", name)
        g2 == HeapSetAttr(g1, id, "lon", lon)
        g3 == HeapSetAttr(g2, id, "lat", lat)
        g4 == HeapSetAttr(g3, id, "lev", lev)
        g5 == HeapSetAttr(g4, id, "time", time)
    IN  HeapSetAttr(g5, id, "ens", ens)

\* the address HeapMcGrid gives the object it makes
NewGridId(h) == Len(h) + 2

\* grid.__dict__[a] = copy.deepcopy(v) for the attributes of the source that
\* are not None: a referenced array is duplicated
RECURSIVE CopyAttrsShared(_, _, _, _)
CopyAttrsShared(h, src, dst, names) ==
    IF names = <<>> THEN h
    ELSE LET a == Head(names)
             v == h[src][a]
         IN  IF v.k = "None" THEN CopyAttrsShared(h, src, dst, Tail(names))
             ELSE CopyAttrsShared([h EXCEPT ![dst][a] = v], src, dst, Tail(names))

RECURSIVE CopyAttrs(_, _, _, _)
CopyAttrs(h, src, dst, names) ==
    IF names = <<>> THEN h
    ELSE LET a == Head(names)
             v == h[src][a]
         IN  IF v.k = "None" THEN CopyAttrs(h, src, dst, Tail(names))
             ELSE IF v.k = "ref"
             THEN LET h1 == Alloc(h, NdArray(h[v.v[1]].v))
                  IN  CopyAttrs([h1 EXCEPT ![dst][a] = Ref(Len(h1))],
                                src, dst, Tail(names))
             ELSE CopyAttrs([h EXCEPT ![dst][a] = v], src, dst, Tail(names))

\* McGrid.copy of the object at id: McGrid(self.name), then a deep copy of
\* every attribute, the dims list included
HeapGridCopy(h, id) ==
    LET h1 == HeapMcGrid(h, h[id].name, PyNone, PyNone, PyNone, PyNone, PyNone)
        new == NewGridId(h)
        h2 == Alloc(h1, PyList(h[h[id].dims].v))
        h3 == [h2 EXCEPT ![new].dims = Len(h2)]
    IN  CopyAttrs(h3, id, new, <<"name", "lon", "lat", "lev", "time", "ens">>)

\* grid.<name>[p] = x: an element of the coordinate array changed in place
HeapPoke(h, id, name, p, x) ==
    [h EXCEPT ![h[id][name].v[1]].v[p] = x]

\* ----------------------------------------------------- the copy specification
GridIds(h) == {a \in 1..Len(h) : h[a].k = "McGrid"}

\* the first McGrid object made, and the last
SourceId(h) == CHOOSE a \in GridIds(h) : \A b \in GridIds(h) : a <= b

CopyId(h) == CHOOSE a \in GridIds(h) : \A b \in GridIds(h) : a >= b

WhoId(h, who) == IF who = "source" THEN SourceId(h) ELSE CopyId(h)

CopyInit ==
    /\ \E name \in {PyNone, PyScalar(0)}, lon \in BOOLEAN,
          lat \in {PyNone, PyScalar(1), PyArray(Desc(MaxLen))} :
          heap = HeapMcGrid(NoHeap, name,
                     IF lon THEN PyArray(Asc(MaxLen)) ELSE PyNone, lat, PyNone,
                     PyArray(Asc(2)), PyNone)
    /\ grid = EmptyGrid
    /\ fld = NoField
    /\ args = NoArgs
    /\ op = NoOp
    /\ res = NoRes

\* copy = source.copy()
DoGridCopy ==
    /\ op.name = "none"
    /\ heap' = HeapGridCopy(heap, SourceId(heap))
    /\ grid' = GridView(heap', CopyId(heap'))
    /\ op' = [NoOp EXCEPT !.name = "copy"]
    /\ UNCHANGED <<fld, args, res>>

\* the values assigned to an axis of the source or of the copy
CopyAxisInputs == {PyNone, PyArray(<<MaxCoord>>), PyArray(Desc(2))}

\* the axes assigned to: two that the source may hold and one it does not
CopyAxes == {"lon", "lat", "ens"}

\* source.<name> = value  or  copy.<name> = value, after the copy was made
AssignOn ==
    /\ op.name # "none" /\ op.n < MaxSteps
    /\ \E who \in {"source", "copy"}, name \in CopyAxes, value \in CopyAxisInputs :
          /\ heap' = HeapSetAttr(heap, WhoId(heap, who), name, value)
          /\ grid' = GridView(heap', WhoId(heap, who))
          /\ op' = [NoOp EXCEPT !.name = "setattr", !.dim = name, !.val = value,
                                !.kw = <<who>>, !.n = op.n + 1]
    /\ UNCHANGED <<fld, args, res>>

\* source.<name>[0] = x  or  copy.<name>[0] = x, after the copy was made
PokeOn ==
    /\ op.name # "none" /\ op.n < MaxSteps
    /\ \E who \in {"source", "copy"}, name \in AxisNames :
          /\ heap[WhoId(heap, who)][name].k = "ref"
          /\ heap' = HeapPoke(heap, WhoId(heap, who), name, 1, MaxCoord + 1)
          /\ grid' = GridView(heap', WhoId(heap, who))
          /\ op' = [NoOp EXCEPT !.name = "poke", !.dim = name,
                                !.val = PyScalar(MaxCoord + 1),
                                !.kw = <<who>>, !.n = op.n + 1]
    /\ UNCHANGED <<fld, args, res>>

CopyNext == DoGridCopy \/ AssignOn \/ PokeOn

CopySpec == CopyInit /\ [][CopyNext]_vars

\* the grid that a step on who does not address
OtherId(h, who) == IF who = "source" THEN CopyId(h) ELSE SourceId(h)

\* C11: the copy of a Grid has the source's name, axis values and dims, and
\* is a separate object; no later assignment to an axis, and no change of an
\* element of a coordinate array, of the one changes the name, an axis
\* value or dims of the other.
C11_CopyEqualIndependent ==
    /\ [](op.name = "copy" =>
            /\ CopyId(heap) # SourceId(heap)
            /\ GridView(heap, CopyId(heap)) = GridView(heap, SourceId(heap)))
    /\ [][op'.name \in {"setattr", "poke"} =>
            GridView(heap', OtherId(heap, op'.kw[1]))
                = GridView(heap, OtherId(heap, op'.kw[1]))]_vars

\* C11 witness: an element of a coordinate array of the copy was changed and
\* the copy now differs from the source on that axis, which the source still
\* holds as a sequence.
C11_Witness ==
    /\ op.name = "poke" /\ op.kw = <<"copy">>
    /\ GridView(heap, SourceId(heap))[op.dim].k = "array"
    /\ GridView(heap, CopyId(heap))[op.dim] # GridView(heap, SourceId(heap))[op.dim]
    /\ GridView(heap, CopyId(heap)).dims = GridView(heap, SourceId(heap)).dims

\* ------------------------------------------------------------ McGrid queries
\* a value handed back to the caller that is neither a Field nor an array
Returned(v) == [NoRes EXCEPT !.kind = "value", !.data = v]

PyTuple(s) == [k |-> "tuple", v |-> s]

PyStr(s) == [k |-> "str", v |-> <<s>>]

\* list.index(x), 0-based: the first position that holds x
ListIndex(s, x) ==
    (CHOOSE p \in 1..Len(s) : s[p] = x /\ \A q \in 1..(p - 1) : s[q] # x) - 1

\* McGrid.dimvalueindex(**kwargs): kw is kwargs.items() in iteration order,
\* vals is kwargs.get.  For an axis that is None the pair (KeyError, message)
\* is returned, not raised; list(dimvalue) of a scalar raises TypeError;
\* list.index raises ValueError for a value that is not there.
RECURSIVE DimvalueindexLoop(_, _, _, _)
DimvalueindexLoop(g, kw, vals, idx_out) ==
    IF kw = <<>>
    THEN IF idx_out = <<>> THEN Raise("IndexError")
         ELSE IF Len(idx_out) < 2 THEN Returned(PyScalar(idx_out[1]))
         ELSE Returned(PyTuple(idx_out))
    ELSE LET key == Head(kw)
             dimvalue == g[key]
         IN  IF dimvalue.k = "None"
             THEN Returned(PyTuple(<<"KeyError", "McGrid instance has no dimension">>))
             ELSE IF dimvalue.k = "scalar" THEN Raise("TypeError")
             ELSE IF vals[key].v[1] \notin SeqRange(dimvalue.v) THEN Raise("ValueError")
             ELSE DimvalueindexLoop(g, Tail(kw), vals,
                      Append(idx_out, ListIndex(dimvalue.v, vals[key].v[1])))

Dimvalueindex(g, kw, vals) == DimvalueindexLoop(g, kw, vals, <<>>)

\* McGrid.__getattr__(name), reached for a name that is no stored attribute
PositionAccessors == {"xdim", "ydim", "zdim", "tdim", "edim"}

LengthAccessors == {"xn", "yn", "zn", "tn", "en"}

AccessorAxis(name) ==
    CASE name \in {"xdim", "xn"} -> "lon"
      [] name \in {"ydim", "yn"} -> "lat"
      [] name \in {"zdim", "zn"} -> "lev"
      [] name \in {"tdim", "tn"} -> "time"
      [] OTHER -> "ens"

\* dims.index raises ValueError, turned into AttributeError; len(None) and
\* len(scalar) raise TypeError, which is not caught
McGridGetattr(g, name) ==
    IF name \in PositionAccessors
    THEN IF InDims(g, AccessorAxis(name))
         THEN Returned(PyScalar(PosOf(g.dims, AccessorAxis(name)) - 1))
         ELSE Raise("AttributeError")
    ELSE IF name \in LengthAccessors
    THEN IF g[AccessorAxis(name)].k = "array"
         THEN Returned(PyScalar(Len(g[AccessorAxis(name)].v)))
         ELSE Raise("TypeError")
    ELSE Raise("AttributeError")

\* McGrid.dimindex(dimnames, filtered): dimnames is a str or a list of names;
\* filtered is applied to a list only
DimindexAscending(g, dimnames, filtered) ==
    IF dimnames.k = "str"
    THEN IF InDims(g, dimnames.v[1])
         THEN Returned(PyScalar(PosOf(g.dims, dimnames.v[1]) - 1))
         ELSE Raise("ValueError")
    ELSE LET names == IF filtered
                      THEN SelectSeq(dimnames.v, LAMBDA s : InDims(g, s))
                      ELSE dimnames.v
         IN  IF \E i \in 1..Len(names) : ~InDims(g, names[i]) THEN Raise("ValueError")
             ELSE Returned(PyList(SortedSeq({PosOf(g.dims, names[i]) - 1 :
                                               i \in 1..Len(names)})))

Dimindex(g, dimnames, filtered) ==
    IF dimnames.k = "str"
    THEN IF InDims(g, dimnames.v[1])
         THEN Returned(PyScalar(PosOf(g.dims, dimnames.v[1]) - 1))
         ELSE Raise("ValueError")
    ELSE LET names == IF filtered
                      THEN SelectSeq(dimnames.v, LAMBDA s : InDims(g, s))
                      ELSE dimnames.v
         IN  IF \E i \in 1..Len(names) : ~InDims(g, names[i]) THEN Raise("ValueError")
             ELSE Returned(PyList([i \in 1..Len(names) |-> PosOf(g.dims, names[i]) - 1]))

\* ---------------------------------------------------- the query specification
\* grids whose axes are absent, collapsed to a scalar or present
QueryInit ==
    /\ \E lon, time \in BOOLEAN, lat \in {PyNone, PyScalar(1), PyArray(Desc(MaxLen))},
          ens \in {PyNone, PyScalar(0)} :
          grid = McGridInit(PyScalar(0),
                     IF lon THEN PyArray(Asc(MaxLen)) ELSE PyNone, lat, PyNone,
                     IF time THEN PyArray(Asc(2)) ELSE PyNone, ens)
    /\ fld = NoField
    /\ args = NoArgs
    /\ op = NoOp
    /\ res = NoRes
    /\ heap = NoHeap

\* one or two distinct axis names, in either order
QueryKeys ==
    {k \in SeqsUpTo(AxisNames, 1, 2) : \A i, j \in 1..Len(k) : i # j => k[i] # k[j]}

QueryVals(kw) ==
    {c \in [AxisNames -> {PyNone} \cup {PyScalar(x) : x \in 0..MaxLen}] :
        \A a \in AxisNames : c[a] = PyNone <=> a \notin SeqRange(kw)}

\* grid.dimvalueindex(<name> = value, ...)
DoDimvalueindex ==
    /\ op.name = "none"
    /\ \E kw \in QueryKeys : \E vals \in QueryVals(kw) :
          /\ op' = [NoOp EXCEPT !.name = "dimvalueindex", !.dim = kw[1],
                                !.kw = kw, !.val = vals]
          /\ res' = Dimvalueindex(grid, kw, vals)
    /\ UNCHANGED <<grid, fld, args, heap>>

\* grid.xdim, grid.xn, ... and a name that is no accessor
DoGetattr ==
    /\ op.name = "none"
    /\ \E name \in PositionAccessors \cup LengthAccessors \cup {"foo"} :
          /\ op' = [NoOp EXCEPT !.name = "getattr", !.dim = name]
          /\ res' = McGridGetattr(grid, name)
    /\ UNCHANGED <<grid, fld, args, heap>>

\* grid.dimindex(name or [names], filtered)
DoDimindex ==
    /\ op.name = "none"
    /\ \E dimnames \in {PyStr(a) : a \in AxisNames} \cup {PyList(k) : k \in QueryKeys},
          filtered \in BOOLEAN :
          /\ op' = [NoOp EXCEPT !.name = "dimindex", !.val = dimnames,
                                !.n = IF filtered THEN 1 ELSE 0]
          /\ res' = Dimindex(grid, dimnames, filtered)
    /\ UNCHANGED <<grid, fld, args, heap>>

\* ------------------------------------------------------------- McGrid.getgrid
\* the result of a call that returns a McGrid
GridResult(g) == [NoRes EXCEPT !.kind = "grid", !.grid = g]

\* setattr(grid, key, new_dimvalue[0]) for a selection of size one: the
\* coordinates of time are datetime objects (testgrid), whose indexing in
\* __setattr__ raises the TypeError that stores the value itself; the
\* coordinates of the other axes are numpy scalars, whose indexing raises
\* IndexError, which neither __setattr__ nor getgrid catches
SetOne(g, key, x) ==
    IF key = "time" THEN GridResult(SetAttr(g, key, PyScalar(x)))
    ELSE Raise("IndexError")

\* McGrid.getgrid(**kwargs): kw is the keys of kwargs, crit is kwargs.get and
\* first is the key kwargs.items() yields first; the return statement stands
\* inside the loop over the items, so the loop body runs for that key only,
\* and with no keyword the method ends without a return statement
Getgrid(g, kw, crit, first) ==
    IF \E i \in 1..Len(kw) : ~InDims(g, kw[i]) THEN Raise("ValueError")
    ELSE IF Len(kw) = 0 THEN Returned(PyNone)
    ELSE LET dimvalue == g[first].v
             value == crit[first]
         IN  IF value.k = "tuple"
             THEN LET mask == SortedSeq(RangeMask(dimvalue, value))
                      new_dimvalue == [p \in 1..Len(mask) |-> dimvalue[mask[p]]]
                  IN  IF Len(mask) = 0
                      THEN GridResult(SetAttr(GridCopy(g), first, PyNone))
                      ELSE IF Len(mask) = 1
                      THEN SetOne(GridCopy(g), first, new_dimvalue[1])
                      ELSE GridResult(SetAttr(GridCopy(g), first, PyArray(new_dimvalue)))
             \* the message of the error names dim, which is not defined
             ELSE IF OutOfDomain(dimvalue, value.v[1]) THEN Raise("NameError")
             ELSE SetOne(GridCopy(g), first, dimvalue[Argmin(dimvalue, value.v[1])])

\* no keyword, one keyword, or two keywords of different axes, with a range
\* or a scalar each
GetgridKwargs ==
    LET crits == {CritTuple(x, y) : x \in 0..1, y \in 1..MaxCoord}
                 \cup {PyScalar(x) : x \in {-1, 1}}
    IN  {[kw |-> <<>>, crit |-> NoKw]}
        \cup {[kw |-> <<a>>, crit |-> [NoKw EXCEPT ![a] = c]] :
                a \in {"lon", "lat", "time"}, c \in crits}
        \cup {[kw |-> k, crit |-> [NoKw EXCEPT ![k[1]] = c, ![k[2]] = d]] :
                k \in {<<"lon", "lat">>, <<"lon", "time">>, <<"lat", "time">>},
                c \in crits, d \in crits}

\* grid.getgrid(...)
DoGetgrid ==
    /\ op.name = "none"
    /\ \E k \in GetgridKwargs :
       \E first \in IF k.kw = <<>> THEN {""} ELSE SeqRange(k.kw) :
          /\ op' = [NoOp EXCEPT !.name = "getgrid", !.dim = first, !.kw = k.kw,
                                !.val = k.crit]
          /\ res' = Getgrid(grid, k.kw, k.crit, first)
    /\ UNCHANGED <<grid, fld, args, heap>>

QueryNext == DoDimvalueindex \/ DoGetattr \/ DoDimindex \/ DoGetgrid

QuerySpec == QueryInit /\ [][QueryNext]_vars

\* C13: dimvalueindex of one axis name and a value returns the position of
\* the value when the axis holds it, raises the dimension error (KeyError)
\* when the grid has no such axis, and raises ValueError when the axis holds
\* no such value.
C13_ValueIndex ==
    (op.name = "dimvalueindex" /\ Len(op.kw) = 1) =>
        LET a == op.kw[1]
            x == op.val[a].v[1]
        IN  /\ (grid[a].k = "array" /\ x \in SeqRange(grid[a].v)) =>
                  /\ res.kind = "value" /\ res.data.k = "scalar"
                  /\ grid[a].v[res.data.v[1] + 1] = x
            /\ grid[a].k = "None" =>
                  res.kind = "error" /\ res.err = "KeyError"
            /\ (grid[a].k = "array" /\ x \notin SeqRange(grid[a].v)) =>
                  res.kind = "error" /\ res.err = "ValueError"

\* C14: a position accessor returns the index in dims of its axis and a
\* length accessor the number of its coordinates when the axis is in dims;
\* both raise AttributeError when it is not.
C14_DerivedAccessors ==
    (op.name = "getattr" /\ op.dim \in PositionAccessors \cup LengthAccessors) =>
        LET a == AccessorAxis(op.dim)
        IN  IF InDims(grid, a)
            THEN /\ res.kind = "value"
                 /\ op.dim \in PositionAccessors => grid.dims[res.data.v[1] + 1] = a
                 /\ op.dim \in LengthAccessors => res.data.v[1] = Len(grid[a].v)
            ELSE res.kind = "error" /\ res.err = "AttributeError"

\* C15 as stated: dimindex returns the position in dims of a name, or the
\* positions of a list of names in the given order; without filtered it
\* raises ValueError when a name is not in dims; with filtered it never
\* raises for a name that is not in dims and returns the positions of the
\* names that are, for a single name as for a list.
C15_AxisIndex ==
    op.name = "dimindex" =>
        LET names == op.val.v
            present == SelectSeq(names, LAMBDA s : InDims(grid, s))
        IN  /\ (op.n = 0 /\ present # names) =>
                  res.kind = "error" /\ res.err = "ValueError"
            /\ (op.n = 0 /\ present = names) =>
                  /\ res.kind = "value"
                  /\ op.val.k = "str" => grid.dims[res.data.v[1] + 1] = names[1]
                  /\ op.val.k = "list" =>
                        /\ Len(res.data.v) = Len(names)
                        /\ \A i \in 1..Len(names) :
                              grid.dims[res.data.v[i] + 1] = names[i]
            /\ op.n = 1 =>
                  /\ res.kind = "value"
                  /\ op.val.k = "list" =>
                        /\ Len(res.data.v) = Len(present)
                        /\ \A i \in 1..Len(present) :
                              grid.dims[res.data.v[i] + 1] = present[i]

\* C15 amended: as stated for a list of names; for a single name filtered
\* plays no part: the position when the name is in dims, ValueError when it
\* is not.
C15_AxisIndexAmended ==
    op.name = "dimindex" =>
        LET names == op.val.v
            present == SelectSeq(names, LAMBDA s : InDims(grid, s))
            positions == [i \in 1..Len(present) |-> PosOf(grid.dims, present[i]) - 1]
        IN  /\ (op.val.k = "str" /\ present # names) =>
                  res.kind = "error" /\ res.err = "ValueError"
            /\ (op.val.k = "str" /\ present = names) =>
                  res = Returned(PyScalar(positions[1]))
            /\ (op.val.k = "list" /\ op.n = 0 /\ present # names) =>
                  res.kind = "error" /\ res.err = "ValueError"
            /\ (op.val.k = "list" /\ (op.n = 1 \/ present = names)) =>
                  res = Returned(PyList(positions))

\* C15 witness: filtered dimindex of a list of two names, the first absent
\* from dims and the second not the first axis of dims, returned the one
\* position.
C15_Witness ==
    /\ op.name = "dimindex" /\ op.val.k = "list" /\ op.n = 1
    /\ Len(op.val.v) = 2
    /\ ~InDims(grid, op.val.v[1]) /\ InDims(grid, op.val.v[2])
    /\ res.kind = "value" /\ res.data.v = <<1>>

\* ------------------------------------------------------- gridmin and gridmax
\* np.arange(n).reshape(shape)[i]: the rank of index i in row-major order
RECURSIVE RowMajor(_, _)
RowMajor(shape, i) ==
    IF shape = <<>> THEN 0
    ELSE RowMajor(SubSeq(shape, 1, Len(shape) - 1), SubSeq(i, 1, Len(i) - 1))
             * shape[Len(shape)] + (i[Len(i)] - 1)

\* the number an element of a Field selected from testfield holds: the
\* row-major rank, in the receiver of shape shape0, of the cell it is
ElementValue(shape0, e) == RowMajor(shape0, Tail(CHOOSE c \in e : TRUE))

\* np.unravel_index(data.argmax(), data.shape) and the same with argmin: the
\* first index in row-major order that holds the extreme
ArgExtremeSwapped(shape, val, which) ==
    CHOOSE i \in Idx(shape) :
        /\ \A j \in Idx(shape) :
              IF which = "max" THEN val[i] <= val[j] ELSE val[i] >= val[j]
        /\ \A j \in Idx(shape) :
              RowMajor(shape, j) < RowMajor(shape, i) => val[j] # val[i]

ArgExtreme(shape, val, which) ==
    CHOOSE i \in Idx(shape) :
        /\ \A j \in Idx(shape) :
              IF which = "max" THEN val[i] >= val[j] ELSE val[i] <= val[j]
        /\ \A j \in Idx(shape) :
              RowMajor(shape, j) < RowMajor(shape, i) => val[j] # val[i]

\* the body gridmin and gridmax share: narrow when keywords are given, find
\* the index of the extreme, read each axis of dims at it
GridExtreme(f, kw, crit, which) ==
    LET field == IF Len(kw) # 0 THEN Get(f, kw, crit) ELSE AsField(f)
    IN  IF field.kind = "error" THEN field
        \* the bare data that get returns has no attribute grid
        ELSE IF field.kind = "bare" THEN Raise("AttributeError")
        ELSE LET g == GridCopy(field.grid)
                 val == [i \in Idx(field.shape) |-> ElementValue(f.shape, field.data[i])]
                 idx == ArgExtreme(field.shape, val, which)
             IN  IF \E j \in 1..Len(g.dims) :
                        j > Len(idx) \/ idx[j] > Len(g[g.dims[j]].v)
                 THEN Raise("IndexError")
                 ELSE Returned(PyList([j \in 1..Len(g.dims) |-> g[g.dims[j]].v[idx[j]]]))

\* McField.gridmin(**kwargs)
Gridmin(f, kw, crit) == GridExtreme(f, kw, crit, "min")

\* McField.gridmax(**kwargs)
Gridmax(f, kw, crit) == GridExtreme(f, kw, crit, "max")

\* ------------------------------------------------- the extremum specification
\* receivers: testfield on one or two axes, one of them a ramp of 2..MaxLen
\* coordinates in ascending or descending order
ExtremeInit ==
    /\ fld \in Receivers(Ramps(2, MaxLen))
    /\ grid = EmptyGrid
    /\ args = NoArgs
    /\ op = NoOp
    /\ res = NoRes
    /\ heap = NoHeap

\* no keyword, or one keyword with a range or a scalar
ExtremeKwargs ==
    {[kw |-> <<>>, crit |-> NoKw]}
    \cup {[kw |-> <<a>>, crit |-> [NoKw EXCEPT ![a] = c]] :
            a \in AxisNames,
            c \in {CritTuple(x, y) : x, y \in CritVals} \cup {PyScalar(x) : x \in CritVals}}

\* field.gridmin(...)
DoGridmin ==
    /\ op.name = "none"
    /\ \E k \in ExtremeKwargs :
          /\ k.kw # <<>> => InDims(fld.grid, k.kw[1]) \/ k.crit[k.kw[1]] = PyScalar(0)
          /\ op' = [NoOp EXCEPT !.name = "gridmin", !.dim = "min", !.kw = k.kw,
                                !.val = k.crit]
          /\ res' = Gridmin(fld, k.kw, k.crit)
    /\ UNCHANGED <<grid, fld, args, heap>>

\* field.gridmax(...)
DoGridmax ==
    /\ op.name = "none"
    /\ \E k \in ExtremeKwargs :
          /\ k.kw # <<>> => InDims(fld.grid, k.kw[1]) \/ k.crit[k.kw[1]] = PyScalar(0)
          /\ op' = [NoOp EXCEPT !.name = "gridmax", !.dim = "max", !.kw = k.kw,
                                !.val = k.crit]
          /\ res' = Gridmax(fld, k.kw, k.crit)
    /\ UNCHANGED <<grid, fld, args, heap>>

\* ------------------------------------------------- gridargmin and gridargmax
\* mask = np.zeros(self.shape); mask[gmask] = True: the indices whose
\* position on every axis is among the positions gridmask selected there
RegionMaskInverted(shape, keys) ==
    {i \in Idx(shape) : ~ \A j \in 1..Len(shape) : i[j] \in SeqRange(keys[j])}

RegionMask(shape, keys) ==
    {i \in Idx(shape) : \A j \in 1..Len(shape) : i[j] \in SeqRange(keys[j])}

\* the body gridargmin and gridargmax share: with keywords the selected
\* region is masked; argmin / argmax fill the masked elements with a value
\* beyond every element and take the first extreme in row-major order;
\* the index is returned as a tuple, counted from 0
GridArgExtreme(f, kw, crit, which) ==
    LET gmask == IF Len(kw) # 0 THEN Gridmask(f.grid, kw, crit)
                 ELSE [err |-> "", keys |-> <<>>]
    IN  IF gmask.err # "" THEN Raise(gmask.err)
        ELSE LET masked == IF Len(kw) # 0 THEN RegionMask(f.shape, gmask.keys) ELSE {}
                 val == [i \in Idx(f.shape) |->
                           IF i \in masked
                           THEN (IF which = "min" THEN NpProd(f.shape) ELSE -1)
                           ELSE ElementValue(f.shape, f.data[i])]
                 idx == ArgExtreme(f.shape, val, which)
             IN  Returned(PyTuple([j \in 1..Len(idx) |-> idx[j] - 1]))

\* field.gridargmin(...)
DoGridargmin ==
    /\ op.name = "none"
    /\ \E k \in ExtremeKwargs :
          /\ k.kw # <<>> => InDims(fld.grid, k.kw[1]) \/ k.crit[k.kw[1]] = PyScalar(0)
          /\ op' = [NoOp EXCEPT !.name = "gridargmin", !.dim = "min", !.kw = k.kw,
                                !.val = k.crit]
          /\ res' = GridArgExtreme(fld, k.kw, k.crit, "min")
    /\ UNCHANGED <<grid, fld, args, heap>>

\* field.gridargmax(...)
DoGridargmax ==
    /\ op.name = "none"
    /\ \E k \in ExtremeKwargs :
          /\ k.kw # <<>> => InDims(fld.grid, k.kw[1]) \/ k.crit[k.kw[1]] = PyScalar(0)
          /\ op' = [NoOp EXCEPT !.name = "gridargmax", !.dim = "max", !.kw = k.kw,
                                !.val = k.crit]
          /\ res' = GridArgExtreme(fld, k.kw, k.crit, "max")
    /\ UNCHANGED <<grid, fld, args, heap>>

ExtremeNext == DoGridmin \/ DoGridmax \/ DoGridargmin \/ DoGridargmax

ExtremeSpec == ExtremeInit /\ [][ExtremeNext]_vars

\* the Field the extreme is looked up in: the receiver, narrowed when
\* keywords are given
Searched == IF Len(op.kw) # 0 THEN Get(fld, op.kw, op.val) ELSE AsField(fld)

NpDiff(s) == [i \in 1..(Len(s) - 1) |-> s[i + 1] - s[i]]

\* np.all(np.diff(grid.time) == dt) with dt = np.diff(grid.time)[0]
UniformStepFirstTwo(time) ==
    \A i \in 1..(Len(NpDiff(time)) - 1) : i <= 1 => NpDiff(time)[i + 1] = NpDiff(time)[1]

UniformStep(time) ==
    \A i \in 1..Len(NpDiff(time)) : NpDiff(time)[i] = NpDiff(time)[1]

\* int(cut * 3600. * 24 / dt.total_seconds()): cut is in days, as dt is here;
\* both are positive
CutSteps(cut, dt) == cut \div dt

\* length = 2 * max(cut1, cut2) + 1; cut2 is None when it was not given, and
\* max of Python 2 ranks None below every number
FilterLength(cut1, cut2, dt) ==
    LET c1 == CutSteps(cut1, dt)
        c2 == IF cut2.k = "None" \/ cut2.v[1] = 0 THEN c1 ELSE CutSteps(cut2.v[1], dt)
    IN  2 * (IF c1 >= c2 THEN c1 ELSE c2) + 1

\* pymet.stats.lanczos_filter(data, cut1, cut2, length, tdim, bound, mode):
\* 'mask' keeps the length of the time axis, 'valid' keeps the positions
\* whose window of the filter length is whole
StatsLanczosFilter(shape, data, length, t, bound) ==
    LET n == shape[t]
        h == length \div 2
        m == IF bound = "valid" THEN (IF n - 2 * h < 0 THEN 0 ELSE n - 2 * h) ELSE n
        rshape == [shape EXCEPT ![t] = m]
        window(p) == LET c == IF bound = "valid" THEN p + h ELSE p
                     IN  IF c - h >= 1 /\ c + h <= n THEN (c - h)..(c + h) ELSE {}
    IN  [shape |-> rshape,
         data  |-> [i \in Idx(rshape) |->
                      UNION {data[[i EXCEPT ![t] = q]] : q \in window(i[t])}]]

\* McField.timefilter(cut1, cut2, mode, bound) on a Field whose grid holds a
\* time axis with a positive first step.  With bound 'valid' the name tools,
\* which the module never imports, is looked up after grid.time was sliced:
\* NameError.
Timefilter(f, cut1, cut2, mode, bound) ==
    LET g == GridCopy(f.grid)
        time == g.time.v
    IN  IF ~UniformStep(time) THEN Raise("ValueError")
        ELSE
          LET length == FilterLength(cut1, cut2, NpDiff(time)[1])
              t == PosOf(g.dims, "time")
              r == StatsLanczosFilter(f.shape, f.data, length, t, bound)
          IN  IF NpProd(r.shape) < 2 THEN Bare(r.shape, r.data)
              ELSE IF bound = "valid" THEN Raise("NameError")
              ELSE AsField(McField(r.shape, r.data, g))

\* ----------------------------------------------- the timefilter specification
\* time axes of 2..MaxLen+2 samples that start at 0 and advance by one or two
\* days at each sample
RECURSIVE StepSum(_, _)
StepSum(steps, i) == IF i = 0 THEN 0 ELSE StepSum(steps, i - 1) + steps[i]

TimeAxes ==
    {[i \in 1..(Len(steps) + 1) |-> StepSum(steps, i - 1)] :
        steps \in SeqsUpTo({1, 2}, 1, MaxLen + 1)}

FilterInit ==
    /\ \E time \in TimeAxes, lat \in {PyNone, PyArray(Desc(2))} :
          fld = TestField(1, McGridInit(PyScalar(0), PyNone, lat, PyNone,
                                        PyArray(time), PyNone))
    /\ grid = EmptyGrid
    /\ args = NoArgs
    /\ op = NoOp
    /\ res = NoRes
    /\ heap = NoHeap

\* field.timefilter(cut1, cut2, mode, bound)
DoTimefilter ==
    /\ op.name = "none"
    /\ \E cut1 \in 1..2, cut2 \in {PyNone, PyScalar(1), PyScalar(2)},
          mode \in {"lowpass", "highpass", "bandpass"}, bound \in {"mask", "valid"} :
          /\ op' = [NoOp EXCEPT !.name = "timefilter", !.dim = bound, !.val = cut2,
                                !.kw = <<mode>>, !.n = cut1]
          /\ res' = Timefilter(fld, cut1, cut2, mode, bound)
    /\ UNCHANGED <<grid, fld, args, heap>>

FilterNext == DoTimefilter

FilterSpec == FilterInit /\ [][FilterNext]_vars

\* the filter length of the call in op, on the receiver's time axis
CallLength == FilterLength(op.n, op.val, NpDiff(fld.grid.time.v)[1])

\* C17: timefilter with bound 'valid' and filter length H on a uniformly
\* sampled Field with at least H + 1 time samples returns a Field whose time
\* coordinate is the original one without its first and last floor(H/2)
\* samples, as long as the result array's time axis.
C17_FilterValidTime ==
    (/\ op.name = "timefilter" /\ op.dim = "valid"
     /\ UniformStep(fld.grid.time.v)
     /\ Len(fld.grid.time.v) >= CallLength + 1) =>
        LET n == Len(fld.grid.time.v)
            h == CallLength \div 2
            t == PosOf(fld.grid.dims, "time")
        IN  /\ res.kind = "field"
            /\ CoordSeq(res.grid, "time") = SubSeq(fld.grid.time.v, h + 1, n - h)
            /\ Len(CoordSeq(res.grid, "time")) = res.shape[t]

\* C18: timefilter raises ValueError, and leaves the receiver as it was,
\* whenever the steps between consecutive time coordinates are not all
\* equal; when they are all equal it does not raise ValueError.
C18_NonUniformRejected ==
    [][op'.name = "timefilter" =>
         /\ fld' = fld
         /\ (\E i \in 1..(Len(fld.grid.time.v) - 2) :
                fld.grid.time.v[i + 2] - fld.grid.time.v[i + 1]
                    # fld.grid.time.v[i + 1] - fld.grid.time.v[i]) =>
               res'.kind = "error" /\ res'.err = "ValueError"
         /\ (\A i \in 1..(Len(fld.grid.time.v) - 2) :
                fld.grid.time.v[i + 2] - fld.grid.time.v[i + 1]
                    = fld.grid.time.v[i + 1] - fld.grid.time.v[i]) =>
               ~(res'.kind = "error" /\ res'.err = "ValueError")
      ]_vars

\* C18 witness: the first two steps of the time axis are equal, a later one
\* differs, and timefilter raised ValueError.
C18_Witness ==
    /\ op.name = "timefilter" /\ res.kind = "error" /\ res.err = "ValueError"
    /\ Len(fld.grid.time.v) >= 4
    /\ NpDiff(fld.grid.time.v)[1] = NpDiff(fld.grid.time.v)[2]
    /\ NpDiff(fld.grid.time.v)[3] # NpDiff(fld.grid.time.v)[1]

\* ------------------------------------- std, var, max, min, ptp, prod, cumsum
\* an attribute that was never assigned
Unset == [k |-> "unset"]

\* name='test_field' of testfield: the name of the Fields (grids are named 0)
FieldName == PyScalar(1)

\* hasattr(self, 'grid'): the instance has its own grid, or the class has the
\* attribute that McField.__new__ assigns (cls.grid = McGrid())
HasattrGrid(f, cls) == f.grid # Unset \/ cls # Unset

\* self.grid: the instance attribute, else the class attribute
SelfGrid(f, cls) == IF f.grid # Unset THEN f.grid ELSE cls

\* the value that the masked array's function fn gives for the elements of
\* cells
MaFn(fn, cells) == [fn |-> fn, of |-> cells]

\* marray.<fn>(axis=axis) for prod, std, max, min and ptp: one element when
\* axis is None, else the axis is removed
MaReduce(fn, shape, data, axis) ==
    IF axis.k = "None"
    THEN [err |-> "", shape |-> <<>>,
          data |-> [i \in {<<>>} |-> MaFn(fn, ReduceAll(shape, data)[<<>>])]]
    ELSE LET k == PyIndex(axis.v[1], Len(shape))
         IN  IF k = 0 THEN [err |-> "ValueError", shape |-> <<>>, data |-> NoData]
             ELSE [err |-> "", shape |-> ReduceShape(shape, k),
                   data |-> [i \in Idx(ReduceShape(shape, k)) |->
                               MaFn(fn, ReduceData(shape, data, k)[i])]]

\* marray.cumsum(axis=axis) / marray.cumprod(axis=axis): the flattened array
\* when axis is None, else the same shape; each element gathers the elements
\* up to itself
MaCumulative(fn, shape, data, axis) ==
    IF axis.k = "None"
    THEN [err |-> "", shape |-> <<NpProd(shape)>>,
          data |-> [i \in Idx(<<NpProd(shape)>>) |->
                      MaFn(fn, UNION {data[j] : j \in {x \in Idx(shape) :
                                                         RowMajor(shape, x) < i[1]}})]]
    ELSE LET k == PyIndex(axis.v[1], Len(shape))
         IN  IF k = 0 THEN [err |-> "ValueError", shape |-> <<>>, data |-> NoData]
             ELSE [err |-> "", shape |-> shape,
                   data |-> [i \in Idx(shape) |->
                               MaFn(fn, UNION {data[[i EXCEPT ![k] = q]] : q \in 1..i[k]})]]

\* the tail that cumsum, cumprod, prod, std, var, max, min and ptp share: the
\* result is returned bare when it has no axis, when the receiver has no
\* grid or when out is given.  Otherwise the copied grid, with the reduced
\* axis set to None, is passed under the keyword gird, which the constructor
\* does not know: the Field is built with McGrid(self.name).
StatReturn(f, cls, r, axis, out) ==
    IF r.err # "" THEN Raise(r.err)
    ELSE IF Len(r.shape) = 0 \/ ~HasattrGrid(f, cls) \/ out # "None"
    THEN Bare(r.shape, r.data)
    ELSE LET g == GridCopy(SelfGrid(f, cls))
         IN  IF axis.k # "None" /\ PyIndex(axis.v[1], Len(g.dims)) = 0
             THEN Raise("IndexError")
             ELSE AsField(McField(r.shape, r.data,
                                  McGridInit(FieldName, PyNone, PyNone, PyNone,
                                             PyNone, PyNone)))

\* mean(axis, out=out) / sum(axis, out=out) without keywords: the value
\* computed for a receiver without grid or with out is not returned, the
\* method goes on; out, when given, is what the array's mean returns, and an
\* ndarray has no attribute mask
ReduceOut(f, cls, axis, out) ==
    IF /\ ~HasattrGrid(f, cls) \/ out # "None"
       /\ axis.k # "None" /\ PyIndex(axis.v[1], Len(f.shape)) = 0
    THEN Raise("ValueError")
    ELSE IF ~HasattrGrid(f, cls) THEN Raise("AttributeError")
    ELSE LET r == AxisReduce(McField(f.shape, f.data, SelfGrid(f, cls)), axis)
         IN  IF r.kind = "field" /\ out = "ndarray" THEN Raise("AttributeError")
             ELSE r

\* ------------------------------------- the specification of the statistics
\* grid holds the class attribute McField.grid here.  Receivers: testfield
\* on one or two axes, and views of them, which have no grid of their own.
StatGrids ==
    {LET arg(a) == IF a \in A
                   THEN PyArray(IF a \in {"lat", "lev"} THEN Desc(MaxLen) ELSE Asc(MaxLen))
                   ELSE PyNone
     IN  McGridInit(PyScalar(0), arg("lon"), arg("lat"), arg("lev"), arg("time"),
                    arg("ens")) :
        A \in {X \in SUBSET AxisNames : Cardinality(X) \in {1, 2}}}

StatInit ==
    /\ \E g \in StatGrids :
          \/ fld = TestField(1, g) /\ grid = EmptyGrid
          \/ fld = [TestField(1, g) EXCEPT !.grid = Unset] /\ grid \in {Unset, EmptyGrid}
    /\ args = NoArgs
    /\ op = NoOp
    /\ res = NoRes
    /\ heap = NoHeap

OutArgs == {"None", "ndarray", "MaskedArray"}

\* one call field.<fn>(axis=axis, out=out), r[axis, out] its result; McField.__new__
\* assigns the class attribute whenever a Field is built
StatCall(fn, r) ==
    /\ op.name = "none"
    /\ \E axis \in ReduceAxisArgs, out \in OutArgs :
          /\ op' = [NoOp EXCEPT !.name = fn, !.dim = "axis", !.val = axis, !.kw = <<out>>]
          /\ res' = r[axis, out]
          /\ grid' = IF r[axis, out].kind = "field" THEN EmptyGrid ELSE grid
    /\ UNCHANGED <<fld, args, heap>>

DoMeanOut == StatCall("mean", [axis \in ReduceAxisArgs, out \in OutArgs |-> ReduceOut(fld, grid, axis, out)])

DoSumOut == StatCall("sum", [axis \in ReduceAxisArgs, out \in OutArgs |-> ReduceOut(fld, grid, axis, out)])

DoCumsum ==
    StatCall("cumsum", [axis \in ReduceAxisArgs, out \in OutArgs |->
        StatReturn(fld, grid, MaCumulative("cumsum", fld.shape, fld.data, axis), axis, out)])

DoCumprod ==
    StatCall("cumprod", [axis \in ReduceAxisArgs, out \in OutArgs |->
        StatReturn(fld, grid, MaCumulative("cumprod", fld.shape, fld.data, axis), axis, out)])

DoProd ==
    StatCall("prod", [axis \in ReduceAxisArgs, out \in OutArgs |->
        StatReturn(fld, grid, MaReduce("prod", fld.shape, fld.data, axis), axis, out)])

DoStd ==
    StatCall("std", [axis \in ReduceAxisArgs, out \in OutArgs |->
        StatReturn(fld, grid, MaReduce("std", fld.shape, fld.data, axis), axis, out)])

\* var calls marray.std
DoVar ==
    StatCall("var", [axis \in ReduceAxisArgs, out \in OutArgs |->
        StatReturn(fld, grid, MaReduce("std", fld.shape, fld.data, axis), axis, out)])

DoMax ==
    StatCall("max", [axis \in ReduceAxisArgs, out \in OutArgs |->
        StatReturn(fld, grid, MaReduce("max", fld.shape, fld.data, axis), axis, out)])

DoMin ==
    StatCall("min", [axis \in ReduceAxisArgs, out \in OutArgs |->
        StatReturn(fld, grid, MaReduce("min", fld.shape, fld.data, axis), axis, out)])

DoPtp ==
    StatCall("ptp", [axis \in ReduceAxisArgs, out \in OutArgs |->
        StatReturn(fld, grid, MaReduce("ptp", fld.shape, fld.data, axis), axis, out)])

StatNext ==
    \/ DoMeanOut \/ DoSumOut \/ DoCumsum \/ DoCumprod \/ DoProd
    \/ DoStd \/ DoVar \/ DoMax \/ DoMin \/ DoPtp

StatSpec == StatInit /\ [][StatNext]_vars

\* the 1-based array axis that the call in op reduces (0: none or invalid)
CallAxis == IF op.val.k = "None" THEN 0 ELSE PyIndex(op.val.v[1], Len(fld.shape))

\* C19: mean, sum, std, var, min, max and ptp along one valid array axis k of
\* a Field of two or more axes that has its grid, without out, return a
\* Field whose array is the masked array's reduction of the same name along
\* k and whose grid is the receiver's with the axis dims[k] set to None and
\* every other axis unchanged.
C19_PositionalReduce ==
    (/\ op.name \in {"mean", "sum", "std", "var", "min", "max", "ptp"}
     /\ op.dim = "axis" /\ op.kw = <<"None">>
     /\ fld.grid # Unset /\ Len(fld.shape) >= 2 /\ CallAxis # 0) =>
        /\ res.kind = "field"
        /\ res.shape = ReduceShape(fld.shape, CallAxis)
        /\ res.data = [i \in Idx(res.shape) |->
                         IF op.name \in {"mean", "sum"}
                         THEN ReduceData(fld.shape, fld.data, CallAxis)[i]
                         ELSE MaFn(op.name, ReduceData(fld.shape, fld.data, CallAxis)[i])]
        /\ res.grid = SetAttr(fld.grid, fld.grid.dims[CallAxis], PyNone)

\* C20: every reduction (mean, sum, std, var, min, max, ptp, prod, cumsum,
\* cumprod) called with a valid axis returns a bare array, never a Field and
\* no error, when out is given or the receiver has no grid of its own; and a
\* result without axes (axis None, or the only axis of the receiver, for
\* the reductions that remove an axis) is returned bare.
C20_BareResults ==
    (/\ op.name \in {"mean", "sum", "std", "var", "min", "max", "ptp", "prod",
                     "cumsum", "cumprod"}
     /\ op.dim = "axis" /\ Len(op.kw) = 1
     /\ op.val.k = "None" \/ CallAxis # 0) =>
        /\ (op.kw # <<"None">> \/ fld.grid = Unset) => res.kind = "bare"
        /\ (/\ op.name \notin {"cumsum", "cumprod"}
            /\ op.val.k = "None" \/ Len(fld.shape) = 1) =>
               res.kind = "bare" /\ res.shape = <<>>

\* ------------------------------------------------- which Field holds which grid
\* McField.__init__ with grid given: self.grid = grid, the object itself
McFieldObj(h, g) == Alloc(h, [k |-> "McField", grid |-> g])

FieldIds(h) == {a \in 1..Len(h) : h[a].k = "McField"}

\* the first Field made is the receiver, the last one the result
ReceiverId(h) == CHOOSE a \in FieldIds(h) : \A b \in FieldIds(h) : a <= b

ResultId(h) == CHOOSE a \in FieldIds(h) : \A b \in FieldIds(h) : a >= b

\* the address of the grid of the receiver or of the result
OwnedGrid(h, who) ==
    h[IF who = "receiver" THEN ReceiverId(h) ELSE ResultId(h)].grid

\* grid = self.grid.copy(), as every operation that builds a Field begins:
\* the heap after the copy and the address of the copy
SelfGridShared(h, f) == [heap |-> h, grid |-> h[f].grid]

SelfGridCopy(h, f) ==
    [heap |-> HeapGridCopy(h, h[f].grid), grid |-> NewGridId(h)]

\* the receivers: a Field on lon, time and possibly lat
OwnInit ==
    /\ \E lat \in {PyNone, PyArray(Desc(MaxLen))} :
          heap = McFieldObj(HeapMcGrid(NoHeap, PyScalar(0), PyArray(Asc(2)), lat,
                                       PyNone, PyArray(Asc(MaxLen)), PyNone),
                            NewGridId(NoHeap))
    /\ grid = EmptyGrid
    /\ fld = NoField
    /\ args = NoArgs
    /\ op = NoOp
    /\ res = NoRes

\* the end of an operation: McField(..., grid=g) on the heap h
Built(name, h, g) ==
    /\ op.name = "none"
    /\ heap' = McFieldObj(h, g)
    /\ grid' = GridView(h, g)
    /\ op' = [NoOp EXCEPT !.name = name, !.kw = <<"result", name>>]
    /\ UNCHANGED <<fld, args, res>>

\* field.copy()
DoFieldCopy ==
    \E c \in {SelfGridCopy(heap, ReceiverId(heap))} : Built("copy", c.heap, c.grid)

\* field[keys] and field.get(...): each axis of the copy is assigned the
\* coordinates the keys leave, a new array; here the first two of one axis
DoIndexOwn ==
    \E c \in {SelfGridCopy(heap, ReceiverId(heap))} :
       \E a \in SeqRange(GridView(c.heap, c.grid).dims) :
          \E h2 \in {HeapSetAttr(c.heap, c.grid, a,
                          PyArray(SubSeq(GridView(c.heap, c.grid)[a].v, 1, 2)))} :
             Built("index", h2, c.grid)

\* field.mean(axis=k) / field.sum(axis=k): dims[k] of the copy is set to None
DoReduceOwn ==
    \E c \in {SelfGridCopy(heap, ReceiverId(heap))} :
       \E a \in SeqRange(GridView(c.heap, c.grid).dims) :
          \E h2 \in {HeapSetAttr(c.heap, c.grid, a, PyNone)} :
             Built("mean", h2, c.grid)

\* field.std(axis=k) and the reductions written like it: the copy is passed
\* as gird, the Field is built on McGrid(self.name)
DoStatOwn ==
    \E c \in {SelfGridCopy(heap, ReceiverId(heap))} :
       \E a \in SeqRange(GridView(c.heap, c.grid).dims) :
          \E h2 \in {HeapSetAttr(c.heap, c.grid, a, PyNone)} :
             \E h3 \in {HeapMcGrid(h2, FieldName, PyNone, PyNone, PyNone, PyNone,
                                   PyNone)} :
                Built("std", h3, NewGridId(h2))

\* field.runave(length, bound='valid'): the copy's time is assigned a slice
\* of itself, a new ndarray object
DoRunaveOwn ==
    \E c \in {SelfGridCopy(heap, ReceiverId(heap))} :
       \E length \in {1, MaxLen} :
          \E h2 \in {HeapSetAttr(c.heap, c.grid, "time",
                          PyArray(PySlice(GridView(c.heap, c.grid).time.v,
                                          length \div 2, (-length) \div 2)))} :
             Built("runave", h2, c.grid)

\* field.timefilter(..., bound='mask'): the copy as it is
DoFilterOwn ==
    \E c \in {SelfGridCopy(heap, ReceiverId(heap))} :
       Built("timefilter", c.heap, c.grid)

\* an operator wrapped by _oper_wrapper: the copy as it is
DoOperOwn ==
    \E c \in {SelfGridCopy(heap, ReceiverId(heap))} : Built("operator", c.heap, c.grid)

\* join((field, field), axis): the copy of the first argument's grid is
\* assigned the stacked coordinates of the axis
DoJoinOwn ==
    \E c \in {SelfGridCopy(heap, ReceiverId(heap))} :
       \E a \in SeqRange(GridView(c.heap, c.grid).dims) :
          \E h2 \in {HeapSetAttr(c.heap, c.grid, a,
                          PyArray(GridView(heap, OwnedGrid(heap, "receiver"))[a].v
                                  \o GridView(heap, OwnedGrid(heap, "receiver"))[a].v))} :
             Built("join", h2, c.grid)

\* receiver.grid.<name> = value  or  result.grid.<name> = value
AssignOwn ==
    /\ op.name \notin {"none", "raise"} /\ op.n < MaxSteps
    /\ \E who \in {"receiver", "result"}, name \in {"lon", "ens"},
          value \in {PyNone, PyArray(Desc(2))} :
          /\ heap' = HeapSetAttr(heap, OwnedGrid(heap, who), name, value)
          /\ grid' = GridView(heap', OwnedGrid(heap, who))
          /\ op' = [NoOp EXCEPT !.name = "setattr", !.dim = name, !.val = value,
                                !.kw = <<who, op.kw[2]>>, !.n = op.n + 1]
    /\ UNCHANGED <<fld, args, res>>

\* receiver.grid.<name>[0] = x  or  result.grid.<name>[0] = x
PokeOwn ==
    /\ op.name \notin {"none", "raise"} /\ op.n < MaxSteps
    /\ \E who \in {"receiver", "result"}, name \in {"lon", "time"} :
          /\ heap[OwnedGrid(heap, who)][name].k = "ref"
          /\ heap' = HeapPoke(heap, OwnedGrid(heap, who), name, 1, MaxCoord + 1)
          /\ grid' = GridView(heap', OwnedGrid(heap, who))
          /\ op' = [NoOp EXCEPT !.name = "poke", !.dim = name,
                                !.val = PyScalar(MaxCoord + 1),
                                !.kw = <<who, op.kw[2]>>, !.n = op.n + 1]
    /\ UNCHANGED <<fld, args, res>>

\* the end of an operation that raises err: nothing is returned, the heap h
\* keeps what the operation made before
Raised(name, err, h) ==
    /\ op.name = "none"
    /\ heap' = h
    /\ grid' = GridView(h, OwnedGrid(h, "receiver"))
    /\ op' = [NoOp EXCEPT !.name = "raise", !.dim = err, !.kw = <<"receiver", name>>]
    /\ UNCHANGED <<fld, args, res>>

\* grid.time = grid.time[length/2:-length/2] on the grid at address g
SliceTimeOfSelf(h, g, length) ==
    HeapSetAttr(h, OwnedGrid(h, "receiver"), "time",
        PyArray(PySlice(GridView(h, g).time.v, length \div 2, (-length) \div 2)))

SliceTime(h, g, length) ==
    HeapSetAttr(h, g, "time",
        PyArray(PySlice(GridView(h, g).time.v, length \div 2, (-length) \div 2)))

\* field.get(...), grid.gridmask(...), grid.dimindex(...) and
\* grid.dimvalueindex(...) with a name or value that the grid does not hold:
\* the error is raised while the grid is read
DoReadFail ==
    \E name \in {"get", "gridmask", "dimindex", "dimvalueindex"},
       err \in {"ValueError", "KeyError"} :
       Raised(name, err, heap)

\* runave, timefilter with time steps that differ, a reduction over a region
\* with an unknown name, and join of Fields whose shapes differ or with an
\* axis name that is not in dims: the error is raised after the copy of the
\* grid was made and before anything is assigned to it
DoCopyFail ==
    \E c \in {SelfGridCopy(heap, ReceiverId(heap))} :
       \E name \in {"runave", "timefilter", "mean", "join"} :
          Raised(name, "ValueError", c.heap)

\* field.timefilter(..., bound='valid'): the copy's time is sliced, then
\* tools.mrollaxis raises NameError
DoFilterValidFail ==
    \E c \in {SelfGridCopy(heap, ReceiverId(heap))} :
       \E h2 \in {SliceTime(c.heap, c.grid, 3)} :
          Raised("timefilter", "NameError", h2)

\* field.mean(axis=k, out=array) / field.sum(axis=k, out=array): dims[k] of
\* the copy is set to None, then result.mask raises AttributeError
DoReduceOutFail ==
    \E c \in {SelfGridCopy(heap, ReceiverId(heap))} :
       \E a \in SeqRange(GridView(c.heap, c.grid).dims) :
          \E h2 \in {HeapSetAttr(c.heap, c.grid, a, PyNone)} :
             Raised("mean", "AttributeError", h2)

OwnNext ==
    \/ DoFieldCopy \/ DoIndexOwn \/ DoReduceOwn \/ DoStatOwn \/ DoRunaveOwn
    \/ DoFilterOwn \/ DoOperOwn \/ DoJoinOwn \/ AssignOwn \/ PokeOwn
    \/ DoReadFail \/ DoCopyFail \/ DoFilterValidFail \/ DoReduceOutFail

OwnSpec == OwnInit /\ [][OwnNext]_vars

\* the objects a grid refers to: itself, its dims list, its coordinate arrays
GridObjects(h, g) ==
    {g, h[g].dims} \cup {h[g][a].v[1] : a \in {x \in AxisNames : h[g][x].k = "ref"}}

\* the Field whose grid a step on who does not address
OtherOwner(who) == IF who = "receiver" THEN "result" ELSE "receiver"

\* C12: after Field.copy, an index or selection, a reduction, runave,
\* timefilter, an operator or join, the result's grid is another object than
\* the receiver's and the two refer to no common list or array; an
\* assignment to an axis, or a change of an element of a coordinate array,
\* of the one grid then never changes the other.
C12_GridNotShared ==
    /\ [](op.name \notin {"none", "raise", "setattr", "poke"} =>
            /\ Cardinality(FieldIds(heap)) = 2
            /\ GridObjects(heap, OwnedGrid(heap, "result"))
                  \cap GridObjects(heap, OwnedGrid(heap, "receiver")) = {})
    /\ [][op'.name \in {"setattr", "poke"} =>
            GridView(heap', OwnedGrid(heap, OtherOwner(op'.kw[1])))
                = GridView(heap, OwnedGrid(heap, OtherOwner(op'.kw[1])))]_vars

\* C12 witness: the lon axis of the grid of a reduction's result was
\* assigned, and the receiver's grid still holds its own lon coordinates and
\* lon in dims, which the result's grid now does not.
C12_Witness ==
    /\ op.name = "setattr" /\ op.kw = <<"result", "mean">> /\ op.dim = "lon"
    /\ op.val = PyNone
    /\ GridView(heap, OwnedGrid(heap, "receiver")).lon = PyArray(Asc(2))
    /\ InDims(GridView(heap, OwnedGrid(heap, "receiver")), "lon")
    /\ ~InDims(GridView(heap, OwnedGrid(heap, "result")), "lon")

\* ------------------------------------------------------ index access, again
\* C23: index access with a list of positions on one axis (one position, a
\* range, the positions of a boolean mask, or any list, repeated or
\* descending positions included) that returns a Field gives, at every
\* position of the result, the coordinate of the receiver position the data
\* element came from; an axis with one position selected becomes a scalar and
\* leaves dims.
C23_IndexCoordinates ==
    (op.name = "index" /\ res.kind = "field") =>
        NarrowedTo(fld, res, op.dim, op.val.v)

\* ------------------------------------------------------------ the operators
\* the shape numpy broadcasts two shapes to: aligned at the last axis, the
\* lengths of an axis must agree or one of them be 1
BroadcastShape(a, b) ==
    LET n == IF Len(a) >= Len(b) THEN Len(a) ELSE Len(b)
        pad(s) == [j \in 1..n |-> IF j <= n - Len(s) THEN 1 ELSE s[j - (n - Len(s))]]
    IN  IF \A j \in 1..n : pad(a)[j] = pad(b)[j] \/ pad(a)[j] = 1 \/ pad(b)[j] = 1
        THEN [err |-> "", shape |-> [j \in 1..n |-> IF pad(a)[j] >= pad(b)[j]
                                                    THEN pad(a)[j] ELSE pad(b)[j]]]
        ELSE [err |-> "ValueError", shape |-> <<>>]

\* result = oper(marray, other): each element of the broadcast shape holds
\* oper of the receiver's element that is broadcast to it
OperData(f, name, rshape) ==
    [i \in Idx(rshape) |->
        MaFn(name, f.data[[j \in 1..Len(f.shape) |->
                              IF f.shape[j] = 1 THEN 1
                              ELSE i[j + (Len(rshape) - Len(f.shape))]]])]

\* wrapper(self, *args) of _oper_wrapper(oper): other is the shape of the
\* operand (the receiver's own shape for a unary operator)
OperWrapperNoCopy(f, cls, name, other) ==
    LET r == BroadcastShape(f.shape, other)
    IN  IF r.err # "" THEN Raise(r.err)
        ELSE IF Len(r.shape) = 0 \/ ~HasattrGrid(f, cls)
        THEN Bare(r.shape, OperData(f, name, r.shape))
        ELSE AsField(McField(r.shape, OperData(f, name, r.shape), EmptyGrid))

OperWrapper(f, cls, name, other) ==
    LET r == BroadcastShape(f.shape, other)
    IN  IF r.err # "" THEN Raise(r.err)
        ELSE IF Len(r.shape) = 0 \/ ~HasattrGrid(f, cls)
        THEN Bare(r.shape, OperData(f, name, r.shape))
        ELSE AsField(McField(r.shape, OperData(f, name, r.shape),
                             GridCopy(SelfGrid(f, cls))))

\* the array that an in-place operator leaves in the receiver: np.ma.asarray
\* shares the receiver's memory, the operand must broadcast to its shape
InplaceDataKept(f, name, other) == f.data

InplaceData(f, name, other) ==
    IF BroadcastShape(f.shape, other) = [err |-> "", shape |-> f.shape]
    THEN OperData(f, name, f.shape)
    ELSE f.data

\* wrapper(self, other) of an in-place operator
InplaceWrapper(f, cls, name, other) ==
    IF BroadcastShape(f.shape, other) # [err |-> "", shape |-> f.shape]
    THEN Raise("ValueError")
    ELSE OperWrapper(f, cls, name, other)

\* an operator that the class does not assign: the array's own operator
\* runs, and its result of rank >= 1 is an instance made without __init__,
\* with no grid of its own
Inherited(f, name, other) ==
    LET r == BroadcastShape(f.shape, other)
    IN  IF r.err # "" THEN Raise(r.err)
        ELSE IF Len(r.shape) = 0 THEN Bare(r.shape, OperData(f, name, r.shape))
        ELSE AsField(McField(r.shape, OperData(f, name, r.shape), Unset))

\* the operators the class assigns (the conversions __int__, __long__,
\* __float__ and __divmod__, __rdivmod__, which give no array, are left out)
BinaryOps ==
    {"__lt__", "__le__", "__eq__", "__ne__", "__gt__", "__ge__",
     "__add__", "__sub__", "__mul__", "__floordiv__", "__mod__", "__pow__",
     "__lshift__", "__rshift__", "__and__", "__xor__", "__div__", "__truediv__",
     "__radd__", "__rsub__", "__rmul__", "__rdiv__", "__rtruediv__", "__rpow__",
     "__rlshift__", "__rrshift__", "__rand__", "__rxor__", "__ror__"}

InplaceOps ==
    {"__iadd__", "__isub__", "__imul__", "__idiv__", "__itruediv__", "__ifloordiv__",
     "__imod__", "__ipow__", "__ilshift__", "__irshift__", "__iand__", "__ixor__",
     "__ior__"}

UnaryOps == {"__neg__", "__pos__", "__abs__", "__invert__"}

\* the operators of Python 2 that the class leaves to the array
InheritedOps == {"__or__", "__rfloordiv__", "__rmod__"}

\* ----------------------------------------- the specification of the operators
\* grid holds the class attribute McField.grid.  Receivers: testfield on no,
\* one or two axes, and views of them without a grid of their own; the data
\* are the values np.arange gave.
OperField(g) ==
    [TestField(1, g) EXCEPT !.data = [i \in DOMAIN @ |-> MaFn("arange", @[i])]]

OperInit ==
    /\ \E g \in StatGrids \cup {McGridInit(PyScalar(0), PyNone, PyNone, PyNone,
                                          PyNone, PyNone)} :
          \/ fld = OperField(g) /\ grid = EmptyGrid
          \/ fld = [OperField(g) EXCEPT !.grid = Unset] /\ grid \in {Unset, EmptyGrid}
    /\ args = NoArgs
    /\ op = NoOp
    /\ res = NoRes
    /\ heap = NoHeap

\* the shapes of the operand: a scalar, the receiver's shape, one more
\* leading axis, a first axis of length 1, a first axis that does not fit
OperandShapes(s) ==
    {<<>>, s, <<2>> \o s}
    \cup (IF s = <<>> THEN {} ELSE {[s EXCEPT ![1] = 1], [s EXCEPT ![1] = s[1] + 1]})

\* field <op> other, other <op> field, field <cmp> other
DoOperator ==
    /\ op.name = "none"
    /\ \E name \in BinaryOps, other \in OperandShapes(fld.shape) :
          /\ op' = [NoOp EXCEPT !.name = name, !.dim = "binary", !.kw = other]
          /\ res' = OperWrapper(fld, grid, name, other)
          /\ grid' = IF res'.kind = "field" THEN EmptyGrid ELSE grid
    /\ UNCHANGED <<fld, args, heap>>

\* -field, +field, abs(field), ~field
DoUnary ==
    /\ op.name = "none"
    /\ \E name \in UnaryOps :
          /\ op' = [NoOp EXCEPT !.name = name, !.dim = "unary", !.kw = fld.shape]
          /\ res' = OperWrapper(fld, grid, name, fld.shape)
          /\ grid' = IF res'.kind = "field" THEN EmptyGrid ELSE grid
    /\ UNCHANGED <<fld, args, heap>>

\* field <op>= other: the receiver's array is changed in place
DoInplace ==
    /\ op.name = "none"
    /\ \E name \in InplaceOps, other \in OperandShapes(fld.shape) :
          /\ op' = [NoOp EXCEPT !.name = name, !.dim = "inplace", !.kw = other]
          /\ res' = InplaceWrapper(fld, grid, name, other)
          /\ fld' = [fld EXCEPT !.data = InplaceData(fld, name, other)]
          /\ grid' = IF res'.kind = "field" THEN EmptyGrid ELSE grid
    /\ UNCHANGED <<args, heap>>

\* field | other, other // field, other % field
DoInherited ==
    /\ op.name = "none"
    /\ \E name \in InheritedOps, other \in OperandShapes(fld.shape) :
          /\ op' = [NoOp EXCEPT !.name = name, !.dim = "binary", !.kw = other]
          /\ res' = Inherited(fld, name, other)
    /\ UNCHANGED <<grid, fld, args, heap>>

OperNext == DoOperator \/ DoUnary \/ DoInplace \/ DoInherited

OperSpec == OperInit /\ [][OperNext]_vars

\* C21: an arithmetic, comparison or unary operator on a Field that has its
\* grid, with any operand that broadcasts, returns a bare value when the
\* result has no axis, and else a Field whose grid has the receiver's axes,
\* coordinates and dims and whose array has the receiver's shape; the
\* receiver's grid stays as it was.
C21_OperatorKeepsGrid ==
    [][(/\ op'.dim \in {"binary", "unary"}
        /\ fld.grid # Unset
        /\ BroadcastShape(fld.shape, op'.kw).err = "") =>
           /\ fld'.grid = fld.grid
           /\ IF BroadcastShape(fld.shape, op'.kw).shape = <<>>
              THEN res'.kind = "bare"
              ELSE /\ res'.kind = "field"
                   /\ res'.grid = fld.grid
                   /\ res'.shape = fld.shape
      ]_vars

SelectedCells ==
    IF Len(op.kw) = 0 \/ Searched.kind = "error" THEN {}
    ELSE UNION {Searched.data[x] : x \in DOMAIN Searched.data}

\* the indices of f outside the region made of the given cells
OutsideOf(f, cells) == {i \in Idx(f.shape) : ~(f.data[i] \subseteq cells)}

\* C25: gridargmin and gridargmax return an index of the receiver's full
\* array.  With keywords, whenever an element lies outside the region the
\* keywords select, the index is the position of the smallest (largest)
\* element outside the region; without keywords it is the position of the
\* smallest (largest) element of the array.
C25_ArgExtremeOutside ==
    (op.name \in {"gridargmin", "gridargmax"} /\ Searched.kind # "error") =>
        /\ res.kind = "value"
        /\ Len(res.data.v) = Len(fld.shape)
        /\ \A at \in {[j \in 1..Len(fld.shape) |-> res.data.v[j] + 1]} :
           \A out \in {OutsideOf(fld, SelectedCells)} :
           \A v \in {[i \in Idx(fld.shape) |-> ElementValue(fld.shape, fld.data[i])]} :
              /\ at \in Idx(fld.shape)
              /\ out # {} =>
                    /\ at \in out
                    /\ \A j \in out :
                          IF op.dim = "max" THEN v[at] >= v[j] ELSE v[at] <= v[j]
              /\ op.kw = <<>> => out = Idx(fld.shape)

\* C25 witness: gridargmin with a range that selects the first coordinate of
\* an axis, where the smallest element of the array lies, returned an index
\* outside the region, on a Field of two axes.
C25_Witness ==
    /\ op.name = "gridargmin" /\ Len(op.kw) = 1 /\ op.val[op.kw[1]].k = "tuple"
    /\ res.kind = "value" /\ Len(fld.shape) = 2
    /\ \E cells \in {SelectedCells} :
          /\ fld.data[<<1, 1>>] \subseteq cells
          /\ OutsideOf(fld, cells) # {}
    /\ \E j \in 1..2 : res.data.v[j] # 0

\* ------------------------------------------------ getgrid and select compared
\* C26: whenever get with the same keywords returns a Field on a Field that
\* owns the grid, getgrid returns a McGrid and it equals that Field's grid
\* (every keyword applied, the other axes unchanged).
C26_GetgridAsSelect ==
    op.name = "getgrid" =>
        \A N \in {Get(TestField(1, grid), op.kw, op.val)} :
            N.kind = "field" => (res.kind = "grid" /\ res.grid = N.grid)

====
